---- MODULE Spec2Model ----
(***************************************************************************)
(* Simulation core of the Cats platformer (src/services/ThreeGame.ts).     *)
(* The file holds two engines, both called ThreeGame:                      *)
(*   - the life-based engine  (lines 194-967):  fixed step, capsule vs box *)
(*     collisions, 200 instanced dust particles, lives;                    *)
(*   - the multi-jump engine  (lines 1019-1776): per-frame update, per-axis*)
(*     box collisions, triple jump / wall jump, pool of 100 particle       *)
(*     meshes.                                                             *)
(* Names follow the source; where both engines use one name the life-based *)
(* one carries the suffix Life and the multi-jump one the suffix MJ.       *)
(*                                                                         *)
(* Units.  Multi-jump engine: time in ticks of 1/80 s, velocity in 1/80    *)
(* per second, length in 1/6400, so that v*dt and GRAVITY*dt are exact.    *)
(***************************************************************************)
EXTENDS Integers, Sequences, FiniteSets, TLC

\* engine: which of the two ThreeGame classes is instantiated.
\* lastCall: the operation executed last, with its argument.
\* emitsDone: number of particle emissions explored so far.
\* inputsDone: number of calls of updateControls and setRunning so far.
VARIABLES engine, lastCall, emitsDone, inputsDone

\* the arguments and the result of a function applied on its own
VARIABLES probe
ctlVars == <<engine, lastCall, emitsDone, inputsDone, probe>>

\* this.score and this.collectibles of the engine: the active flags of the
\* entities in the life-based engine, the entities (numbered as created) in
\* the multi-jump engine.  inRange: the collectibles within pickup range of
\* the place of the player in the horizontal plane.
VARIABLES score, collectibles, inRange
\* the observers: the arguments of the last onScoreUpdate and onLivesUpdate
\* call the host has received (<<>>: none yet)
VARIABLES scoreUpdate, livesUpdate
\* history: the number of entities created by the world build, the times
\* each of them has raised the score since the last reset, and the totals
\* passed to onScoreUpdate since the world build
VARIABLES created, pickups, totals
gameVars == <<score, collectibles, inRange, scoreUpdate, livesUpdate, created, pickups, totals>>

\* collectibles created by the world build (80 in the multi-jump engine,
\* about 15 % of the buildings in the life-based one)
NumCollectibles == 2
TOTAL_COLLECTIBLES == NumCollectibles

\* the engine after the world build.  The host assigns the observers of the
\* life-based engine after the constructor has built the world; init of the
\* multi-jump engine ends with onScoreUpdate(this.score, TOTAL_COLLECTIBLES).
GameConstructed(e) ==
    /\ score = 0
    /\ collectibles = [i \in 1..NumCollectibles |-> IF e = "Life" THEN TRUE ELSE i]
    /\ inRange = {}
    /\ scoreUpdate = IF e = "Life" THEN <<>> ELSE <<0, TOTAL_COLLECTIBLES>>
    /\ livesUpdate = <<>>
    /\ created = NumCollectibles
    /\ pickups = [i \in 1..NumCollectibles |-> 0]
    /\ totals = IF e = "Life" THEN {} ELSE {TOTAL_COLLECTIBLES}

\* the life-based engine after reset, called by setRunning(true)
GameReset ==
    /\ score = 0
    /\ collectibles = [i \in 1..NumCollectibles |-> TRUE]
    /\ inRange = {}
    /\ scoreUpdate = <<0, NumCollectibles>>
    /\ livesUpdate = <<9>>
    /\ created = NumCollectibles
    /\ pickups = [i \in 1..NumCollectibles |-> 0]
    /\ totals = {NumCollectibles}

game ==
    [score |-> score, collectibles |-> collectibles, scoreUpdate |-> scoreUpdate,
     livesUpdate |-> livesUpdate, pickups |-> pickups, totals |-> totals]

SetGame(g) ==
    /\ score' = g.score
    /\ collectibles' = g.collectibles
    /\ scoreUpdate' = g.scoreUpdate
    /\ livesUpdate' = g.livesUpdate
    /\ pickups' = g.pickups
    /\ totals' = g.totals

Call(op, arg) == [op |-> op, arg |-> arg]

\* ------------------------------------------------------------------------
\* Life-based engine: instanced dust particles
\* ------------------------------------------------------------------------
\* particleSystem.lives (unit 1/60), the vertical entries vels[i*3+1] of
\* particleSystem.vels, particleSystem.mesh.count and
\* particleSystem.mesh.instanceMatrix.needsUpdate
VARIABLES lives, vels, meshCount, needsUpdate
\* ThreeGame.running of the life-based engine
VARIABLES running

dustVars == <<lives, vels, meshCount, needsUpdate>>

\* slots of the instanced mesh
DUST_SLOTS == 200
\* life given to a spawned slot, 1.0
DUST_LIFE == 60
\* frame delta cap of loop, 0.1 s, in ticks of 1/120 s
MAX_DT_LIFE == 12

\* counts passed to spawnDust by its two callers (jump, running dust)
DustCounts == {1, 10}
\* values of Math.random() * 5 drawn for the vertical velocity of the slots
\* spawned by one call
DustVels == {1, 3}
\* frame deltas explored for the dust: clock.getDelta() at its cap of 0.1 s
DustDts == {MAX_DT_LIFE}
\* calls spawnDust(pos, 10) already made when the exploration starts
InitJumps == {0, 19}

\* initParticles: new Float32Array(200), mesh.count = 0
initParticles ==
    [lives |-> [i \in 0..(DUST_SLOTS - 1) |-> 0],
     vels  |-> [i \in 0..(DUST_SLOTS - 1) |-> 0],
     count |-> 0,
     needsUpdate |-> FALSE]

\* spawnDust: for (i = 0; i < 200 && spawned < count; i++) if (lives[i] <= 0)
\* { lives[i] = 1.0; vels[i*3+1] = random; spawned++ }.  The scan goes upward
\* and stops after count writes: it writes the lowest idle slot, then the
\* next one, count times or until no idle slot is left.
RECURSIVE spawnLoop(_, _)
spawnLoop(idle, count) ==
    IF count <= 0 \/ idle = {} THEN {}
    ELSE LET i == CHOOSE m \in idle : \A j \in idle : m <= j
         IN {i} \cup spawnLoop(idle \ {i}, count - 1)

spawnDust_Overwrite(ps, count, vy) ==
    LET S == 0..(count - 1)
    IN [lives |-> [i \in 0..(DUST_SLOTS - 1) |-> IF i \in S THEN DUST_LIFE ELSE ps.lives[i]],
        vels  |-> [i \in 0..(DUST_SLOTS - 1) |-> IF i \in S THEN vy ELSE ps.vels[i]],
        count |-> DUST_SLOTS,
        needsUpdate |-> TRUE]

spawnDust(ps, count, vy) ==
    LET S == spawnLoop({i \in 0..(DUST_SLOTS - 1) : ps.lives[i] <= 0}, count)
    IN [lives |-> [i \in 0..(DUST_SLOTS - 1) |-> IF i \in S THEN DUST_LIFE ELSE ps.lives[i]],
        vels  |-> [i \in 0..(DUST_SLOTS - 1) |-> IF i \in S THEN vy ELSE ps.vels[i]],
        count |-> DUST_SLOTS,
        needsUpdate |-> TRUE]

\* updateParticles (life-based): every slot with life > 0 loses dt * 2.0
updateParticlesLife(ps, dt) ==
    LET active == {i \in 0..(DUST_SLOTS - 1) : ps.lives[i] > 0}
    IN [ps EXCEPT !.lives = [i \in 0..(DUST_SLOTS - 1) |->
                               IF ps.lives[i] > 0 THEN ps.lives[i] - dt ELSE ps.lives[i]],
                  !.needsUpdate = IF active # {} THEN TRUE ELSE @]

particleSystem ==
    [lives |-> lives, vels |-> vels, count |-> meshCount, needsUpdate |-> needsUpdate]

SetParticleSystem(ps) ==
    /\ lives' = ps.lives
    /\ vels' = ps.vels
    /\ meshCount' = ps.count
    /\ needsUpdate' = ps.needsUpdate

DustConstructed ==
    /\ lives = initParticles.lives
    /\ vels = initParticles.vels
    /\ meshCount = initParticles.count
    /\ needsUpdate = initParticles.needsUpdate

\* ------------------------------------------------------------------------
\* Life-based engine: player physics (updatePhysicsFixed, resolveCollisions)
\*
\* Only the vertical components are modelled: no direction key is held and
\* the horizontal velocity is zero, so the capsule stays in one column of
\* the map.  Units: velocity 1/30, length 1/9000 (so that pVel.y * subDt,
\* GRAVITY * dt and GRAVITY * 0.6 * dt are whole numbers), pJumpTimer and
\* timeAcc in ticks of 1/120 s.
\* ------------------------------------------------------------------------
\* pPos.y, pVel.y, pOnGround, pJumpTimer, keys.jump, this.lives, timeAcc
VARIABLES pPos, pVel, pOnGround, pJumpTimer, keys, playerLives, timeAcc
\* topHit: whether the last call of resolveCollisions resolved a
\* penetration of the top face of a collider while pVel.y was negative
VARIABLES topHit
\* the static colliders that pass the broadphase and lie under the capsule:
\* a sequence of boxes [min |-> box.min.y, max |-> box.max.y]
VARIABLES column
\* history: one record for every fixed step of the last call of loop, with
\* pOnGround when the step began, keys.jump, whether the step applied the
\* jump impulse, and pOnGround when it ended
VARIABLES lastSteps
\* pVel.x and pVel.z
VARIABLES pVelX, pVelZ
\* whether pPos.x and pPos.z lie on the line of the tram (x within the
\* expanded tramBox, z within the travel of the tram), and the fixed steps
\* since the expanded tramBox reached pPos; -1 where the phase of the tram
\* is left open
VARIABLES onTramLine, tramClock

\* history: what the last call of loop has called, in order ("step" for one
\* turn of its while loop, then "updateParticles" and "render")
VARIABLES frameLog

catVars == <<pPos, pVel, pOnGround, pJumpTimer, keys, playerLives, timeAcc, column, topHit,
             lastSteps, pVelX, pVelZ, onTramLine, tramClock, frameLog>>
lifeVars == <<dustVars, running, catVars>>

\* CONFIG.PHYSICS
GRAVITY_DT == 55
JUMP_FORCE_LIFE == 1500
HOLD_JUMP_DT == 33
VAR_JUMP_TIME == 30
PLAYER_RADIUS == 9900
STEP_HEIGHT == 10800
FIXED_STEP == 2
SUBSTEPS == 5
\* one length unit of the source (1.0) and one velocity unit
UNIT_LEN == 9000
UNIT_VEL == 30
\* distSq > 0.00001: the smallest distance that counts as a contact
MIN_DIST == 29
\* norm.y thresholds 0.1 and 0.7, in thousandths
NORM_STEP == 100
NORM_GROUND == 700
\* pPos.y of the field initializer, of reset and of respawn; the sea level
\* under which updatePhysicsFixed respawns
SPAWN_Y == 45000
RESET_Y == 90000
RESPAWN_Y == 225000
SEA_Y == -90000
START_LIVES == 9
\* MOVE_SPEED, SPRINT_SPEED; ACCEL * dt and AIR_CONTROL * dt with dt = 1/60
MOVE_SPEED == 1500
SPRINT_SPEED == 2550
ACCEL_DT == 200
AIR_CONTROL_DT == 60
\* FRICTION_GROUND * dt and FRICTION_AIR * dt, in sixtieths
FRICTION_GROUND == 25
FRICTION_AIR == 1
\* components of a normalized diagonal input, in thousandths
DIAGONAL == 707
\* speed over which render draws for running dust, 0.5
DUST_SPEED == 15
\* tramBox.max.y: the roof of the tram, 7.5 + 0.25
TRAM_TOP == 69750
\* BoxGeometry(BLOCK_SIZE, 0.6, BLOCK_SIZE) at y = 0.3
SIDEWALK_TOP == 5400

\* columns of the map: open street, and the rim of a sidewalk
Street == <<>>
Curb == <<[min |-> 0, max |-> SIDEWALK_TOP]>>
Columns == {Street, Curb}
\* the column over a building 12 high on its sidewalk, with a simit over
\* the middle of its roof
ROOF_TOP == 113400
Roof == <<[min |-> 0, max |-> SIDEWALK_TOP], [min |-> SIDEWALK_TOP, max |-> ROOF_TOP]>>
\* height over the top of the column at which the capsule is found airborne
\* with pVel.y = 0 (the apex of a jump)
ApexHeights == {9000}
\* whether the expanded tramBox contains pPos.x, pPos.z in a substep
TramOver == {FALSE, TRUE}
\* the tram: z = sin(elapsedTime * 0.3) * 350, and a tramBox of 24 + 2 * 1
\* along z, so the box holds a point of the line near z = 0 for 16 fixed
\* steps; it comes back after pi / 0.3 s (628 steps), shortened here
TRAM_STAY == 16
TramPeriod == 48
KeyNames == {"forward", "backward", "left", "right", "jump", "sprint"}
NoKeys == [k \in KeyNames |-> FALSE]
\* pVel.x = pVel.z of a diagonal sprint through the air at SPRINT_SPEED
\* (85 * 0.7071 = 60.1)
GlideVels == {-1803}
\* frame deltas of loop, in ticks of 1/120 s
LoopDts == {2}

\* division of the magnitude, rounded towards zero
Trunc(a, b) == IF a >= 0 THEN a \div b ELSE -((-a) \div b)

Clamp(x, lo, hi) == IF x < lo THEN lo ELSE IF x > hi THEN hi ELSE x

Max(a, b) == IF a >= b THEN a ELSE b

Min(a, b) == IF a <= b THEN a ELSE b

Sign(x) == IF x > 0 THEN 1 ELSE IF x < 0 THEN -1 ELSE 0

\* a local constant of the source: const x = e; F(x), with e computed once
Const(e, F(_)) == CHOOSE v \in {F(x) : x \in {e}} : TRUE

\* Math.sqrt, rounded up: the least r in lo..hi with r * r >= n
RECURSIVE SqrtUp(_, _, _)
SqrtUp(n, lo, hi) ==
    IF lo >= hi THEN lo
    ELSE Const((lo + hi) \div 2,
               LAMBDA mid : IF mid * mid >= n THEN SqrtUp(n, lo, mid)
                            ELSE SqrtUp(n, mid + 1, hi))

\* the square of Vector2(x, z).length(), and the length
LengthSq(x, z) == x * x + z * z
Length(x, z) == SqrtUp(LengthSq(x, z), 0, Sign(x) * x + Sign(z) * z)

\* resolveCollisions, step 1: the tram.  tramBox spans y in [0, TRAM_TOP];
\* tram says whether it contains pPos.x and pPos.z.  A capsule within 1.0 of
\* the roof that does not rise is put on the roof; otherwise it is pushed
\* sideways (pPos.x only, which the column abstracts).
resolveTram(c, tram) ==
    IF tram /\ c.y >= 0 /\ c.y <= TRAM_TOP
       /\ c.y >= TRAM_TOP - UNIT_LEN /\ c.vy <= 0
    THEN [c EXCEPT !.y = TRAM_TOP, !.vy = 0, !.groundHit = TRUE]
    ELSE c

\* resolveCollisions, step 2, one collider.  center is pPos.y + r as computed
\* before the loop.  With the capsule inside the footprint of the box the
\* closest point lies straight above or below center, so diff = (0, d, 0)
\* and the unit normal is (0, s, 0) with s = sign(d).
\* The Vector3 methods work in place and return their receiver:
\*   norm = diff.divideScalar(dist)          norm = n
\*   pPos.add(norm.multiplyScalar(pen))      norm = n * pen
\*   vn = pVel.dot(norm)                     vn   = pen * (pVel . n)
\*   pVel.sub(norm.multiplyScalar(vn))       norm = n * pen * vn
\*   if (norm.y > 0.7)                       tests the scaled vector
resolveBox(c, center, box) ==
    LET closest == Clamp(center, box.min, box.max)
        diff    == center - closest
        dist    == IF diff >= 0 THEN diff ELSE -diff
        s       == Sign(diff)
        pen     == PLAYER_RADIUS - dist
        vnNeg   == c.vy * s < 0
        scaled  == Trunc(Trunc(c.vy * pen, UNIT_LEN) * pen, UNIT_LEN)
        vy1     == IF vnNeg THEN c.vy - scaled ELSE c.vy
        normYGround ==
            IF vnNeg THEN scaled * 1000 > NORM_GROUND * UNIT_VEL
            ELSE s * pen * 1000 > NORM_GROUND * UNIT_LEN
    IN IF ~(dist < PLAYER_RADIUS /\ dist >= MIN_DIST) THEN c
       ELSE IF s * 1000 < NORM_STEP /\ box.max - c.y <= STEP_HEIGHT /\ c.vy <= 0
            THEN [c EXCEPT !.y = box.max, !.vy = 0, !.groundHit = TRUE]
       ELSE [y         |-> c.y + s * pen,
             vy        |-> IF normYGround THEN 0 ELSE vy1,
             groundHit |-> c.groundHit \/ normYGround,
             topHit    |-> c.topHit \/ (s = 1 /\ c.vy < 0)]

\* resolveCollisions, step 2, one collider whose footprint the capsule is
\* beside: the closest point lies on a side face, at the horizontal
\* distance d from center, so diff = (-d, dy, 0), where dy is 0 if center is
\* level with the face.  vx is the horizontal velocity towards the face.
\* norm.y < 0.1 is 10 * dy < dist, which the rounding up of dist keeps exact.
resolveBoxAtSide(c, center, box, d, vx) ==
    LET closest == Clamp(center, box.min, box.max)
        dy      == center - closest
        distSq  == d * d + dy * dy
        dist    == SqrtUp(distSq, 0, d + Sign(dy) * dy)
        pen     == PLAYER_RADIUS - dist
        \* pVel . n, n = (-d, dy) / dist
        vDotN   == Trunc(c.vy * dy - vx * d, dist)
        vnNeg   == vDotN < 0
        \* n.y * pen * vn, with vn = pen * (pVel . n)
        scaled  == Trunc(Trunc(Trunc(vDotN * pen, UNIT_LEN) * pen, UNIT_LEN) * dy, dist)
        vy1     == IF vnNeg THEN c.vy - scaled ELSE c.vy
        normYGround ==
            IF vnNeg THEN scaled * 1000 > NORM_GROUND * UNIT_VEL
            ELSE Trunc(dy * pen, dist) * 1000 > NORM_GROUND * UNIT_LEN
    IN IF ~(distSq < PLAYER_RADIUS * PLAYER_RADIUS /\ dist >= MIN_DIST) THEN c
       ELSE IF 10 * dy < dist /\ box.max - c.y <= STEP_HEIGHT /\ c.vy <= 0
            THEN [c EXCEPT !.y = box.max, !.vy = 0, !.groundHit = TRUE]
       ELSE [y         |-> c.y + Trunc(dy * pen, dist),
             vy        |-> IF normYGround THEN 0 ELSE vy1,
             groundHit |-> c.groundHit \/ normYGround,
             topHit    |-> c.topHit]

RECURSIVE resolveBoxes(_, _, _, _)
resolveBoxes(c, center, col, i) ==
    IF i > Len(col) THEN c
    ELSE Const(resolveBox(c, center, col[i]),
               LAMBDA d : resolveBoxes(d, center, col, i + 1))

resolveGroundPlane_Bounce(c) ==
    IF c.y <= 0 THEN [c EXCEPT !.y = 0, !.vy = -c.vy, !.groundHit = TRUE] ELSE c

resolveGroundPlane_None(c) == c

\* resolveCollisions, step 3: the ground plane
resolveGroundPlane(c) ==
    IF c.y <= 0 THEN [c EXCEPT !.y = 0, !.vy = Max(0, c.vy), !.groundHit = TRUE] ELSE c

\* resolveCollisions: position, velocity and pOnGround after one substep.
\* topHit records that the loop resolved a penetration of the top face of a
\* collider (unit normal (0, 1, 0)) while pVel.y was negative.
resolveCollisions(y, vy, col, tram) ==
    Const(resolveTram([y |-> y, vy |-> vy, groundHit |-> FALSE, topHit |-> FALSE], tram),
          LAMBDA c1 :
    Const(resolveBoxes(c1, c1.y + PLAYER_RADIUS, col, 1),
          LAMBDA c2 :
    Const(resolveGroundPlane(c2),
          LAMBDA c3 :
    [y |-> c3.y, vy |-> c3.vy, onGround |-> c3.groundHit, topHit |-> c3.topHit])))

\* the integration loop of updatePhysicsFixed: n substeps left
RECURSIVE integrate(_, _, _, _)
integrate(p, col, tram, n) ==
    IF n = 0 THEN p
    ELSE Const(resolveCollisions(p.y + p.vy, p.vy, col, tram),
               LAMBDA r :
         Const([p EXCEPT !.y = r.y, !.vy = r.vy, !.onGround = r.onGround,
                         !.topHit = r.topHit],
               LAMBDA q : integrate(q, col, tram, n - 1)))

\* respawn
respawn(p) == [p EXCEPT !.lives = @ - 1, !.y = RESPAWN_Y, !.vy = 0, !.vx = 0, !.vz = 0]

\* updatePhysicsFixed, 1: the input vector of the keys, normalized, in
\* thousandths (camAngle.y = 0: the mouse is not moved)
inputVector(k) ==
    LET x == (IF k.right THEN 1 ELSE 0) - (IF k.left THEN 1 ELSE 0)
        z == (IF k.backward THEN 1 ELSE 0) - (IF k.forward THEN 1 ELSE 0)
    IN IF x # 0 /\ z # 0 THEN [x |-> x * DIAGONAL, z |-> z * DIAGONAL]
       ELSE [x |-> x * 1000, z |-> z * 1000]

\* updatePhysicsFixed, 1: pVel += input * accel * dt
inputStage(p, k) ==
    LET in    == inputVector(k)
        accel == IF p.onGround THEN ACCEL_DT ELSE AIR_CONTROL_DT
    IN IF in.x = 0 /\ in.z = 0 THEN p
       ELSE [p EXCEPT !.vx = @ + Trunc(in.x * accel, 1000),
                      !.vz = @ + Trunc(in.z * accel, 1000)]

\* updatePhysicsFixed, 2: newSpeed = max(0, speed - speed * friction * dt),
\* and both components are scaled by newSpeed / speed
frictionStage_Reverse(p) ==
    LET friction == IF p.onGround THEN FRICTION_GROUND ELSE FRICTION_AIR
        factor   == 60 - 3 * friction
    IN IF LengthSq(p.vx, p.vz) > 0
       THEN [p EXCEPT !.vx = Trunc(@ * factor, 60), !.vz = Trunc(@ * factor, 60)]
       ELSE p

frictionStage(p) ==
    LET friction == IF p.onGround THEN FRICTION_GROUND ELSE FRICTION_AIR
        factor   == Max(0, 60 - friction)
    IN IF LengthSq(p.vx, p.vz) > 0
       THEN [p EXCEPT !.vx = Trunc(@ * factor, 60), !.vz = Trunc(@ * factor, 60)]
       ELSE p

\* updatePhysicsFixed, 3: a horizontal velocity longer than maxS is
\* normalized and scaled to maxS
maxSpeedStage(p, k) ==
    LET maxS == IF k.sprint THEN SPRINT_SPEED ELSE MOVE_SPEED
    IN IF LengthSq(p.vx, p.vz) > maxS * maxS
       THEN Const(Length(p.vx, p.vz),
                  LAMBDA len : [p EXCEPT !.vx = Trunc(@ * maxS, len),
                                         !.vz = Trunc(@ * maxS, len)])
       ELSE p

\* updatePhysicsFixed(dt) with dt = FIXED_STEP: input, friction, max speed,
\* jump, gravity, integration, sea clamp.  jumped records the call
\* spawnDust(pPos, 10).
jumpStage_AirJump(p, jump) ==
    IF jump
    THEN IF p.onGround \/ p.jumpTimer > 0
         THEN [p EXCEPT !.vy = JUMP_FORCE_LIFE, !.onGround = FALSE,
                        !.jumpTimer = VAR_JUMP_TIME, !.jumped = TRUE]
         ELSE p
    ELSE [p EXCEPT !.jumpTimer = 0]

jumpStage(p, jump) ==
    IF jump
    THEN IF p.onGround
         THEN [p EXCEPT !.vy = JUMP_FORCE_LIFE, !.onGround = FALSE,
                        !.jumpTimer = VAR_JUMP_TIME, !.jumped = TRUE]
         ELSE IF p.jumpTimer > 0
              THEN [p EXCEPT !.vy = @ + HOLD_JUMP_DT, !.jumpTimer = @ - FIXED_STEP]
              ELSE p
    ELSE [p EXCEPT !.jumpTimer = 0]

updatePhysicsFixed(p, k, col, tram) ==
    Const(inputStage(p, k),
          LAMBDA p1 :
    Const(frictionStage(p1),
          LAMBDA p2 :
    Const(maxSpeedStage(p2, k),
          LAMBDA p3 :
    Const(jumpStage(p3, k.jump),
          LAMBDA p4 :
    Const([p4 EXCEPT !.vy = @ - GRAVITY_DT],
          LAMBDA p5 :
    Const(integrate(p5, col, tram, SUBSTEPS),
          LAMBDA p7 : IF p7.y < SEA_Y THEN respawn(p7) ELSE p7))))))

\* reset
reset(p) ==
    [p EXCEPT !.lives = START_LIVES, !.y = RESET_Y, !.vy = 0, !.vx = 0, !.vz = 0,
              !.onGround = FALSE]

\* reset: score = 0, every collectible active, onScoreUpdate(0,
\* collectibles.length), onLivesUpdate(9)
resetScore_KeepFlags(g) ==
    [g EXCEPT !.score = 0,
              !.scoreUpdate = <<0, Len(g.collectibles)>>,
              !.livesUpdate = <<START_LIVES>>,
              !.pickups = [i \in DOMAIN g.pickups |-> 0],
              !.totals = @ \cup {Len(g.collectibles)}]

resetScore(g) ==
    [g EXCEPT !.score = 0,
              !.collectibles = [i \in DOMAIN g.collectibles |-> TRUE],
              !.scoreUpdate = <<0, Len(g.collectibles)>>,
              !.livesUpdate = <<START_LIVES>>,
              !.pickups = [i \in DOMAIN g.pickups |-> 0],
              !.totals = @ \cup {Len(g.collectibles)}]

\* the player as the physics sees it
player ==
    [y |-> pPos, vy |-> pVel, onGround |-> pOnGround, jumpTimer |-> pJumpTimer,
     lives |-> playerLives, jumped |-> FALSE, topHit |-> FALSE, vx |-> pVelX, vz |-> pVelZ]

SetPlayer(p) ==
    /\ pPos' = p.y
    /\ pVel' = p.vy
    /\ pOnGround' = p.onGround
    /\ pJumpTimer' = p.jumpTimer
    /\ playerLives' = p.lives
    /\ pVelX' = p.vx
    /\ pVelZ' = p.vz

\* field initializers of the life-based engine
CatConstructed ==
    /\ pPos = SPAWN_Y
    /\ pVel = 0
    /\ pOnGround = FALSE
    /\ pJumpTimer = 0
    /\ keys = NoKeys
    /\ playerLives = START_LIVES
    /\ timeAcc = 0
    /\ column = Street
    /\ topHit = FALSE
    /\ lastSteps = <<>>
    /\ frameLog = <<>>
    /\ pVelX = 0
    /\ pVelZ = 0
    /\ onTramLine = TRUE
    /\ tramClock = -1

\* ------------------------------------------------------------------------
\* Multi-jump engine: particle pool
\* ------------------------------------------------------------------------
VARIABLES particlePool, activeParticles
\* ThreeGame.isRunning of the multi-jump engine
VARIABLES isRunning

\* number of meshes createParticlePool creates
POOL_SIZE == 100
\* lifetime of a sprint particle, 0.5 s
SPRINT_LIFETIME == 40
\* lifetime of a wall-slide particle, 0.4 s
WALL_SLIDE_LIFETIME == 32
\* frame delta cap of animate, 0.05 s
MAX_DT_MJ == 4

\* counts passed to emitParticleBurst by its three callers
BurstCounts == {5, 10, 15}
\* pairs of values of Math.random() * 0.8 + 0.2 (0.2 s and 0.225 s, both in
\* [0.2, 1.0)) drawn for the even and the odd particles of a burst
BurstLifetimes == {<<16, 18>>}
\* frame deltas explored for the pool: clock.getDelta() at its cap of 0.05 s
PoolDts == {MAX_DT_MJ}
\* particle emissions explored in one behaviour
MaxEmits == 2
\* calls of updateControls and setRunning explored in one behaviour
MaxInputs == 3
\* bursts of 15 already emitted in the frame the exploration starts from
\* (collectibles picked up in one frame, checkCollectibleCollisions)
InitBursts == {0, 6}

\* the player of the multi-jump engine: playerControls.jump and
\* prevPlayerControls.jump, the two timers (saturating at TimerCap: the code
\* only compares them with 0.1 s), player.position.y, playerVelocity.y,
\* onGround, isTouchingWall, jumpCount
VARIABLES playerControls, prevPlayerControls, timeSinceGrounded,
          timeSinceJumpPressed, playerPosition, playerVelocity, onGround,
          isTouchingWall, jumpCount
\* what lies in the horizontal plane.  contact: the collidable object whose
\* footprint the footprint of the player's box meets ("platform": the
\* starting platform; "slide", "grip": the face of a building the player is
\* steered into, its box touching the building's box without / with an
\* intersection left after the push-out; "none").  drifting: at a building,
\* where the key towards it is held, playerVelocity.x or .z is not 0.
\* frameDt: the frame time of the display.
VARIABLES contact, drifting, frameDt
\* playerVelocity.x and .z where no direction key is held
VARIABLES playerVelocityX, playerVelocityZ
\* history: ticks since updateTimers last saw a rising edge of jump (-1:
\* never), performJump / performWallJump calls since then, and a record of
\* the last update
VARIABLES sinceEdge, jumpsSinceEdge, lastUpdate
\* animationState.phase, and animationState.time in ticks, saturated at
\* AnimCap
VARIABLES animPhase, animTime

poolVars == <<particlePool, activeParticles>>
catMJVars == <<playerControls, prevPlayerControls, timeSinceGrounded,
               timeSinceJumpPressed, playerPosition, playerVelocity, onGround,
               isTouchingWall, jumpCount, contact, drifting, frameDt,
               sinceEdge, jumpsSinceEdge, lastUpdate, playerVelocityX, playerVelocityZ,
               animPhase, animTime>>
mjVars == <<poolVars, isRunning, catMJVars>>

\* the camera angles, in thousandths of a radian: camAngle of the life-based
\* engine (x the pitch, y the yaw), cameraSpherical of the multi-jump engine
\* (phi the pitch, theta the yaw)
VARIABLES camAngleX, camAngleY, cameraPhi, cameraTheta
camVars == <<camAngleX, camAngleY, cameraPhi, cameraTheta>>
\* the host of the life-based engine, Game in App: gameState of Game
\* (NoHost where the engine is driven directly and its observers only
\* record their arguments), gameStarted of App (the isRunning of Game), and
\* whether the Game State Sync effect is due, a dependency having changed
VARIABLES gameState, gameStarted, syncPending
uiVars == <<gameState, gameStarted, syncPending>>
viewVars == <<camVars, uiVars>>

vars == <<ctlVars, gameVars, lifeVars, mjVars, viewVars>>

\* Math.PI and Math.PI / 2
PI == 3142
HALF_PI == 1571
\* 0.002 rad for a pixel in both engines
MOUSE_SENSITIVITY == 2
CAMERA_MIN_PHI == 300
\* Math.PI / 2.1
CAMERA_MAX_PHI == 1496
\* camAngle = { x: 0.3, y: Math.PI }
CAM_PITCH == 300
\* new THREE.Spherical(8, Math.PI / 2.5, Math.PI)
CAMERA_PHI == 1257

CamConstructed ==
    /\ camAngleX = CAM_PITCH
    /\ camAngleY = PI
    /\ cameraPhi = CAMERA_PHI
    /\ cameraTheta = PI

NoHost == "none"

ViewConstructed ==
    /\ CamConstructed
    /\ gameState = NoHost
    /\ gameStarted = FALSE
    /\ syncPending = FALSE

\* createParticlePool: push 100 fresh meshes
createParticlePool == [i \in 1..POOL_SIZE |-> i]

\* emitParticleBurst: the loop, iteration i of count; the i-th particle's
\* random lifetime alternates between the two drawn values l1, l2
RECURSIVE emitLoop(_, _, _, _, _, _)
emitLoop(pool, active, i, count, l1, l2) ==
    IF i >= count THEN [pool |-> pool, active |-> active]
    ELSE IF Len(pool) = 0 THEN [pool |-> pool, active |-> active]
    ELSE LET mesh == pool[Len(pool)]
             life == IF i % 2 = 0 THEN l1 ELSE l2
         IN emitLoop(SubSeq(pool, 1, Len(pool) - 1),
                     Append(active, [mesh |-> mesh, lifetime |-> life]),
                     i + 1, count, l1, l2)

emitParticleBurst_OffByOne(pool, active, count, l1, l2) ==
    emitLoop(pool, active, 1, count, l1, l2)

emitParticleBurst(pool, active, count, l1, l2) ==
    emitLoop(pool, active, 0, count, l1, l2)

\* emitSprintParticle / emitWallSlideParticle: one mesh unless the pool is
\* empty or Math.random() > 0.5 (skip)
emitOne_NoPop(pool, active, skip, life) ==
    IF Len(pool) = 0 \/ skip THEN [pool |-> pool, active |-> active]
    ELSE [pool   |-> pool,
          active |-> Append(active, [mesh |-> pool[Len(pool)], lifetime |-> life])]

emitOne(pool, active, skip, life) ==
    IF Len(pool) = 0 \/ skip THEN [pool |-> pool, active |-> active]
    ELSE [pool   |-> SubSeq(pool, 1, Len(pool) - 1),
          active |-> Append(active, [mesh |-> pool[Len(pool)], lifetime |-> life])]

emitSprintParticle(pool, active, skip) == emitOne(pool, active, skip, SPRINT_LIFETIME)

emitWallSlideParticle(pool, active, skip) == emitOne(pool, active, skip, WALL_SLIDE_LIFETIME)

\* updateParticles: for (i = length - 1; i >= 0; i--) { p.lifetime -= dt;
\* if (p.lifetime <= 0) { particlePool.push(p.mesh); activeParticles.splice(i, 1) } }.
\* The loop visits every particle once, from the last to the first (a splice
\* at i moves only entries already visited), so the expired ones reach the
\* pool in reverse order and the others keep their order.
Age(p, dt) == [p EXCEPT !.lifetime = @ - dt]

Expired_Strict(p) == p.lifetime < 0

Expired(p) == p.lifetime <= 0

Alive(p) == ~Expired(p)

updateParticlesMJ(pool, active, dt) ==
    LET aged    == [i \in 1..Len(active) |-> Age(active[i], dt)]
        expired == SelectSeq(aged, Expired)
        n       == Len(expired)
    IN [pool   |-> pool \o [i \in 1..n |-> expired[n + 1 - i].mesh],
        active |-> SelectSeq(aged, Alive)]

\* ------------------------------------------------------------------------
\* Multi-jump engine: the player
\* ------------------------------------------------------------------------
\* JUMP_FORCE = 12
JUMP_FORCE_MJ == 960
\* JUMP_FORCE * 0.9, the vertical velocity of a wall jump
WALL_JUMP_VY == 864
\* GRAVITY = -35: the change of playerVelocity.y in one tick
GRAVITY_MJ == -35
MAX_JUMPS == 3
\* COYOTE_TIME = JUMP_BUFFER_TIME = 0.1 s
COYOTE_TIME == 8
JUMP_BUFFER_TIME == 8
\* PLAYER_HEIGHT = 0.8
PLAYER_HEIGHT == 5120
PLAYER_RADIUS_MJ == 1920
\* player.position.set(0, 5, 0)
SPAWN_Y_MJ == 32000
\* top of the platform, BoxGeometry(15, 2, 15) centred at y = 1
PLATFORM_TOP == 12800
\* top of the lowest main block of a building, randFloat(8, 30)
BUILDING_TOP == 51200
\* a collectible lies 0.5 over the roof of its building; the pickup range
\* 1.5; the horizontal distance of a collectible near the edge of the roof
\* from a player at the face of the building, 1.0
FISH_RISE == 3200
PICKUP_RANGE == 9600
FISH_GAP == 6400

\* frame times explored: 1/40 s and the cap of animate, 0.05 s
MJDts == {2, MAX_DT_MJ}
\* value at which the two timers saturate
TimerCap == 8
\* the exploration ends when the player has fallen deeper than this below
\* y = 0, where its box is below every collidable object
MaxDepth == 5120
\* jumpCount of a player met in the air at the face of a building
AirJumps == {1, 3}
\* height of that player
WallY == 32000

Sat(t) == IF t > TimerCap THEN TimerCap ELSE t

\* updateTimers; edge records that the rising edge was seen
updateTimers(s, in) ==
    LET edge == in.jump /\ ~in.prevJump
    IN [s EXCEPT !.tSG = Sat(@ + in.dt),
                 !.tSJP = IF edge THEN 0 ELSE Sat(@ + in.dt),
                 !.edge = edge]

performJump_NoConsume(s) ==
    [s EXCEPT !.vy = JUMP_FORCE_MJ,
              !.jumpCount = @ + 1,
              !.onGround = FALSE,
              !.phase = "jumping",
              !.time = 0,
              !.jumped = "jump"]

performJump(s) ==
    [s EXCEPT !.tSJP = JUMP_BUFFER_TIME,
              !.vy = JUMP_FORCE_MJ,
              !.jumpCount = @ + 1,
              !.onGround = FALSE,
              !.phase = "jumping",
              !.time = 0,
              !.jumped = "jump"]

performWallJump_ToZero(s, in) ==
    [s EXCEPT !.tSJP = JUMP_BUFFER_TIME,
              !.vy = WALL_JUMP_VY,
              !.drifting = TRUE,
              !.jumpCount = 0,
              !.jumped = "wall"]

\* performWallJump: wallNormal is a unit vector once a wall was touched, so
\* the horizontal velocity becomes non-zero
performWallJump(s, in) ==
    LET r == emitParticleBurst(s.pool, s.active, 10, in.l[1], in.l[2])
    IN [s EXCEPT !.tSJP = JUMP_BUFFER_TIME,
                 !.vy = WALL_JUMP_VY,
                 !.drifting = TRUE,
                 !.jumpCount = 1,
                 !.jumped = "wall",
                 !.pool = r.pool,
                 !.active = r.active,
                 !.emits = @ + 1]

\* Math.exp(-x / 80) in thousandths, for the products lambda * dt of
\* MathUtils.damp that occur
ExpNeg(x) ==
    CASE x = 4 -> 951 [] x = 8 -> 905 [] x = 16 -> 819
      [] x = 20 -> 779 [] x = 32 -> 670 [] x = 40 -> 607

\* playerVelocity.x = MathUtils.damp(playerVelocity.x, 0, lambda, dt), and
\* the same for z: lerp(v, 0, 1 - exp(-lambda * dt))
dampToRest(s, lambda, dt) ==
    [s EXCEPT !.vx = Trunc(@ * ExpNeg(lambda * dt), 1000),
              !.vz = Trunc(@ * ExpNeg(lambda * dt), 1000)]

\* moveDir.lengthSq() > 0.01: a direction key is held (at a building)
steering(s) == s.contact \in {"slide", "grip"} \/ s.drifting

\* handlePlayerMovement: nothing but damping while not running; else the
\* damping with no direction key held, the jump logic and the wall-slide
\* particle (no sprint particle: sprint is not pressed)
handlePlayerMovement(s, in) ==
    IF ~in.run THEN dampToRest(s, 8, in.dt)
    ELSE Const(IF steering(s) THEN s
               ELSE dampToRest(s, IF s.onGround THEN 10 ELSE 2, in.dt),
               LAMBDA m :
         Const(IF m.tSJP < JUMP_BUFFER_TIME
               THEN IF m.tSG < COYOTE_TIME /\ m.jumpCount < MAX_JUMPS
                    THEN performJump(m)
                    ELSE IF m.touching THEN performWallJump(m, in) ELSE m
               ELSE m,
               LAMBDA j :
         IF j.touching /\ ~j.onGround /\ j.vy < 0
         THEN Const(emitWallSlideParticle(j.pool, j.active, in.skip),
                    LAMBDA r :
                    [j EXCEPT !.pool = r.pool,
                              !.active = r.active,
                              !.emits = @ + Len(r.active) - Len(j.active)])
         ELSE j))

\* the player gliding over the platform: player.position.y at the apex of
\* a jump from it (4.0), and playerVelocity.x = -playerVelocity.z reached by
\* a diagonal run through the air at RUN_SPEED
GlideHeights == {25600}
GlideVelsMJ == {500}

\* top face of the collidable object in contact
Top(c) == IF c = "platform" THEN PLATFORM_TOP ELSE BUILDING_TOP

\* size.x and size.z of the intersection of the player's box with the
\* object's: the whole width of the box over the platform, none at the face
\* of a building the box touches
Overlap(c) == IF c = "platform" THEN 2 * PLAYER_RADIUS_MJ ELSE 0

\* checkCollisions.  "xz" stands for the calls for 'x' and 'z': a wall jump
\* carries the player off a building's face, and off the platform when
\* leave says so; an intersection (bounds included) zeroes the horizontal
\* velocity, moves the player by the width of the intersection along each
\* axis (direction = 1 when the velocity is not positive) and sets
\* isTouchingWall.  "y": a falling player is lifted by the
\* height of the intersection and grounded, a rising one is lowered by it.
checkCollisions(s, axis, leave) ==
    IF axis = "xz"
    THEN LET moving == s.drifting \/ s.vx # 0 \/ s.vz # 0
             c == IF moving /\ (s.contact \in {"slide", "grip"}
                                 \/ (s.contact = "platform" /\ leave))
                  THEN "none" ELSE s.contact
             hit == c # "none" /\ s.y <= Top(c) /\ s.y + PLAYER_HEIGHT >= 0
         IN [s EXCEPT !.contact = c,
                      !.touching = hit,
                      !.push = IF hit THEN Overlap(c) ELSE 0,
                      !.drifting = IF hit THEN FALSE ELSE @,
                      !.vx = IF hit THEN 0 ELSE @,
                      !.vz = IF hit THEN 0 ELSE @]
    ELSE LET top == Top(s.contact)
             hit == s.contact \in {"platform", "grip"}
                    /\ s.y <= top /\ s.y + PLAYER_HEIGHT >= 0
             size == Min(s.y + PLAYER_HEIGHT, top) - Max(s.y, 0)
         IN IF hit /\ s.vy < 0 /\ s.y < top
            THEN [s EXCEPT !.y = @ + size, !.vy = 0, !.onGround = TRUE]
            ELSE IF hit /\ s.vy > 0 /\ s.y + PLAYER_HEIGHT > 0
            THEN [s EXCEPT !.y = @ - size, !.vy = 0, !.onGround = FALSE]
            ELSE [s EXCEPT !.onGround = FALSE]

\* applyPhysicsAndCollisions, its last statement: if (onGround) { if
\* (velocity.y <= 0) { phase 'landing', time 0 and a burst of 5 unless
\* wasOnGround; velocity.y = 0; jumpCount = 0; timeSinceGrounded = 0 } }
groundedReset_OnLanding(s, wasOnGround, in) ==
    IF s.onGround /\ s.vy <= 0 /\ ~wasOnGround
    THEN LET r == emitParticleBurst(s.pool, s.active, 5, in.l[1], in.l[2])
         IN [s EXCEPT !.vy = 0, !.jumpCount = 0, !.tSG = 0,
                      !.phase = "landing", !.time = 0,
                      !.pool = r.pool, !.active = r.active, !.emits = @ + 1]
    ELSE s

groundedReset(s, wasOnGround, in) ==
    IF s.onGround /\ s.vy <= 0
    THEN LET r == IF wasOnGround THEN [pool |-> s.pool, active |-> s.active]
                  ELSE emitParticleBurst(s.pool, s.active, 5, in.l[1], in.l[2])
         IN [s EXCEPT !.vy = 0, !.jumpCount = 0, !.tSG = 0,
                      !.phase = IF wasOnGround THEN @ ELSE "landing",
                      !.time = IF wasOnGround THEN @ ELSE 0,
                      !.pool = r.pool, !.active = r.active,
                      !.emits = @ + IF wasOnGround THEN 0 ELSE 1]
    ELSE s

\* applyPhysicsAndCollisions: gravity (a fifth of it in a wall slide), the
\* three moves with their collision checks, the reset on the ground
applyPhysicsAndCollisions(s, in) ==
    Const(s.onGround, LAMBDA wasOnGround :
    Const([s EXCEPT !.vy = IF s.touching /\ s.vy < 0 /\ ~s.onGround
                           THEN @ + (GRAVITY_MJ * in.dt) \div 5
                           ELSE @ + GRAVITY_MJ * in.dt], LAMBDA a :
    Const(checkCollisions(a, "xz", in.leave), LAMBDA b :
    Const(checkCollisions([b EXCEPT !.y = @ + b.vy * in.dt], "y", in.leave), LAMBDA c :
    Const(groundedReset(c, wasOnGround, in), LAMBDA d :
          [d EXCEPT !.wasOnGround = wasOnGround])))))

\* checkCollectibleCollisions, for the collectible at index i within 1.5 of
\* player.position: scene.remove, collectibles.splice(i, 1), score++,
\* onScoreUpdate(score, TOTAL_COLLECTIBLES), a burst of 15
collect_KeepEntity(s, i, in) ==
    Const(emitParticleBurst(s.pool, s.active, 15, in.l[1], in.l[2]), LAMBDA r :
          [s EXCEPT !.score = @ + 1,
                    !.scoreUpdate = <<s.score + 1, TOTAL_COLLECTIBLES>>,
                    !.pickups[s.collectibles[i]] = @ + 1,
                    !.totals = @ \cup {TOTAL_COLLECTIBLES},
                    !.pool = r.pool, !.active = r.active, !.emits = @ + 1])

collect(s, i, in) ==
    Const(emitParticleBurst(s.pool, s.active, 15, in.l[1], in.l[2]), LAMBDA r :
          [s EXCEPT !.collectibles = SubSeq(@, 1, i - 1) \o SubSeq(@, i + 1, Len(@)),
                    !.score = @ + 1,
                    !.scoreUpdate = <<s.score + 1, TOTAL_COLLECTIBLES>>,
                    !.pickups[s.collectibles[i]] = @ + 1,
                    !.totals = @ \cup {TOTAL_COLLECTIBLES},
                    !.pool = r.pool, !.active = r.active, !.emits = @ + 1])

\* player.position.distanceTo(collectible.position) < 1.5 for a collectible
\* of inRange: it lies FISH_RISE over the roof of the building whose face the
\* player is at, FISH_GAP from player.position in the horizontal plane
within(s) ==
    LET dy == s.y - (BUILDING_TOP + FISH_RISE)
    IN /\ s.contact \in {"slide", "grip"}
       /\ dy < PICKUP_RANGE /\ -dy < PICKUP_RANGE
       /\ dy * dy + FISH_GAP * FISH_GAP < PICKUP_RANGE * PICKUP_RANGE

\* checkCollectibleCollisions: for (i = collectibles.length - 1; i >= 0; i--)
RECURSIVE checkCollectibleCollisions(_, _, _)
checkCollectibleCollisions(s, i, in) ==
    IF i < 1 THEN s
    ELSE IF s.collectibles[i] \in in.near /\ within(s)
         THEN checkCollectibleCollisions(collect(s, i, in), i - 1, in)
         ELSE checkCollectibleCollisions(s, i - 1, in)

\* value at which animationState.time saturates; the 0.2 s of a landing;
\* speed 1.0
AnimCap == 24
LANDING_TIME == 16
UNIT_VEL_MJ == 80
AirPhases == {"jumping", "falling", "wall_sliding"}
GroundPhases == {"idle", "running", "landing"}

\* the phase updatePlayerAnimations chooses from onGround, isTouchingWall,
\* playerVelocity and the phase p it finds
phaseOf(s, p) ==
    IF ~s.onGround
    THEN IF s.touching /\ s.vy < 0 THEN "wall_sliding"
         ELSE IF s.vy > 0 THEN "jumping" ELSE "falling"
    ELSE IF p # "landing"
    THEN IF LengthSq(s.vx, s.vz) > UNIT_VEL_MJ * UNIT_VEL_MJ THEN "running"
         ELSE "idle"
    ELSE p

updatePlayerAnimations_NoTimeout(s, in) ==
    Const(IF s.time + in.dt > AnimCap THEN AnimCap ELSE s.time + in.dt, LAMBDA time :
          [s EXCEPT !.time = time, !.phase = phaseOf(s, s.phase)])

\* updatePlayerAnimations: time += dt; a landing older than 0.2 s becomes
\* idle; then the phase for the state of the player
updatePlayerAnimations(s, in) ==
    Const(IF s.time + in.dt > AnimCap THEN AnimCap ELSE s.time + in.dt, LAMBDA time :
          [s EXCEPT !.time = time,
                    !.phase = phaseOf(s, IF s.phase = "landing" /\ time > LANDING_TIME
                                         THEN "idle" ELSE s.phase)])

\* update: updateTimers, handlePlayerMovement, applyPhysicsAndCollisions,
\* checkCollectibleCollisions, updatePlayerAnimations, updateParticles
\* (updateWorld and updateCamera touch none of the fields modelled)
update(s, in) ==
    Const(updateTimers(s, in), LAMBDA t :
    Const(handlePlayerMovement(t, in), LAMBDA h :
    Const(applyPhysicsAndCollisions(h, in), LAMBDA a :
    Const(checkCollectibleCollisions(a, Len(a.collectibles), in), LAMBDA c :
    Const(updatePlayerAnimations(c, in), LAMBDA n :
    Const(updateParticlesMJ(n.pool, n.active, in.dt), LAMBDA r :
          [n EXCEPT !.pool = r.pool, !.active = r.active]))))))

\* the fields of the player and the pool, as one record
mjPlayer ==
    [y |-> playerPosition, vy |-> playerVelocity, onGround |-> onGround,
     touching |-> isTouchingWall, jumpCount |-> jumpCount,
     tSG |-> timeSinceGrounded, tSJP |-> timeSinceJumpPressed,
     contact |-> contact, drifting |-> drifting,
     vx |-> playerVelocityX, vz |-> playerVelocityZ,
     score |-> score, collectibles |-> collectibles, scoreUpdate |-> scoreUpdate,
     livesUpdate |-> livesUpdate, pickups |-> pickups, totals |-> totals,
     pool |-> particlePool, active |-> activeParticles,
     edge |-> FALSE, jumped |-> "none", emits |-> 0, wasOnGround |-> onGround,
     push |-> 0, phase |-> animPhase, time |-> animTime]

SetMJPlayer(s) ==
    /\ animPhase' = s.phase
    /\ animTime' = s.time
    /\ playerPosition' = s.y
    /\ playerVelocity' = s.vy
    /\ onGround' = s.onGround
    /\ isTouchingWall' = s.touching
    /\ jumpCount' = s.jumpCount
    /\ timeSinceGrounded' = s.tSG
    /\ timeSinceJumpPressed' = s.tSJP
    /\ contact' = s.contact
    /\ drifting' = s.drifting
    /\ playerVelocityX' = s.vx
    /\ playerVelocityZ' = s.vz
    /\ particlePool' = s.pool
    /\ activeParticles' = s.active

NoUpdate ==
    [edge |-> FALSE, jumped |-> "none", wasOnGround |-> FALSE,
     before |-> [onGround |-> FALSE, touching |-> FALSE, jumpCount |-> 0,
                 running |-> FALSE, steering |-> FALSE, vx |-> 0, vz |-> 0,
                 y |-> 0, contact |-> "none"],
     push |-> 0]

\* the fields of the player after construction; init runs the first frame
\* with clock.getDelta() = 0, which changes none of them but
\* animationState.phase, 'falling' for a player in the air that does not
\* rise
CatMJConstructed ==
    /\ playerControls = [jump |-> FALSE]
    /\ prevPlayerControls = [jump |-> FALSE]
    /\ timeSinceGrounded = 0
    /\ timeSinceJumpPressed = 0
    /\ playerPosition = SPAWN_Y_MJ
    /\ playerVelocity = 0
    /\ onGround = FALSE
    /\ isTouchingWall = FALSE
    /\ jumpCount = 0
    /\ contact = "platform"
    /\ drifting = FALSE
    /\ playerVelocityX = 0
    /\ playerVelocityZ = 0
    /\ sinceEdge = -1
    /\ jumpsSinceEdge = 0
    /\ lastUpdate = NoUpdate
    /\ animPhase = "falling"
    /\ animTime = 0

\* ------------------------------------------------------------------------
\* Specification of the particle subsystems: the particle operations of the
\* instantiated engine in any order, each where its caller can reach it
\* (handlePlayerMovement and updatePhysicsFixed run only while running)
\* ------------------------------------------------------------------------
RECURSIVE afterBursts(_, _, _)
afterBursts(pool, active, k) ==
    IF k = 0 THEN [pool |-> pool, active |-> active]
    ELSE LET r == emitParticleBurst(pool, active, 15, 16, 18)
         IN afterBursts(r.pool, r.active, k - 1)

\* the particle system after k calls spawnDust(pos, 10) in a row, each with
\* vertical velocity 1: the first 10 k slots are alive
afterJumps(k) ==
    IF k = 0 THEN initParticles
    ELSE [lives |-> [i \in 0..(DUST_SLOTS - 1) |-> IF i < 10 * k THEN DUST_LIFE ELSE 0],
          vels  |-> [i \in 0..(DUST_SLOTS - 1) |-> IF i < 10 * k THEN 1 ELSE 0],
          count |-> DUST_SLOTS,
          needsUpdate |-> TRUE]

PoolConstructed ==
    /\ particlePool = createParticlePool
    /\ activeParticles = <<>>

NoProbe == [in |-> <<>>, out |-> <<>>]

CtlInit ==
    /\ lastCall = Call("init", 0)
    /\ emitsDone = 0
    /\ inputsDone = 0
    /\ probe = NoProbe
    /\ ViewConstructed

ParticlesInit ==
    /\ CtlInit
    /\ running = FALSE
    /\ isRunning = FALSE
    /\ CatMJConstructed
    /\ frameDt = MAX_DT_MJ
    /\ \/ /\ engine = "MJ"
          /\ GameConstructed("MJ")
          /\ DustConstructed
          /\ CatConstructed
          /\ \E k \in InitBursts :
               LET r == afterBursts(createParticlePool, <<>>, k)
               IN /\ particlePool = r.pool
                  /\ activeParticles = r.active
       \/ /\ engine = "Life"
          /\ GameConstructed("Life")
          /\ PoolConstructed
          /\ CatConstructed
          /\ \E k \in InitJumps :
               LET ps == afterJumps(k)
               IN /\ lives = ps.lives
                  /\ vels = ps.vels
                  /\ meshCount = ps.count
                  /\ needsUpdate = ps.needsUpdate

SetPool(r) ==
    /\ particlePool' = r.pool
    /\ activeParticles' = r.active

\* emitParticleBurst, called with 10 by performWallJump (running only), with
\* 5 on landing and with 15 on a pickup
EmitParticleBurst ==
    /\ engine = "MJ"
    /\ emitsDone < MaxEmits
    /\ \E count \in BurstCounts, l \in BurstLifetimes :
         /\ count = 10 => isRunning
         /\ SetPool(emitParticleBurst(particlePool, activeParticles, count, l[1], l[2]))
         /\ lastCall' = Call("emitParticleBurst", count)
    /\ emitsDone' = emitsDone + 1
    /\ inputsDone' = inputsDone
    /\ UNCHANGED <<engine, viewVars, probe, gameVars, lifeVars, isRunning, catMJVars>>

EmitSprintParticle ==
    /\ engine = "MJ"
    /\ isRunning
    /\ emitsDone < MaxEmits
    /\ \E skip \in BOOLEAN :
         /\ SetPool(emitSprintParticle(particlePool, activeParticles, skip))
         /\ lastCall' = Call("emitSprintParticle", IF skip THEN 1 ELSE 0)
    /\ emitsDone' = emitsDone + 1
    /\ inputsDone' = inputsDone
    /\ UNCHANGED <<engine, viewVars, probe, gameVars, lifeVars, isRunning, catMJVars>>

EmitWallSlideParticle ==
    /\ engine = "MJ"
    /\ isRunning
    /\ emitsDone < MaxEmits
    /\ \E skip \in BOOLEAN :
         /\ SetPool(emitWallSlideParticle(particlePool, activeParticles, skip))
         /\ lastCall' = Call("emitWallSlideParticle", IF skip THEN 1 ELSE 0)
    /\ emitsDone' = emitsDone + 1
    /\ inputsDone' = inputsDone
    /\ UNCHANGED <<engine, viewVars, probe, gameVars, lifeVars, isRunning, catMJVars>>

\* updateParticles(dt), called by update in every frame
UpdateParticlesMJ ==
    /\ engine = "MJ"
    /\ \E dt \in PoolDts :
         /\ SetPool(updateParticlesMJ(particlePool, activeParticles, dt))
         /\ lastCall' = Call("updateParticles", dt)
    /\ UNCHANGED <<engine, viewVars, probe, gameVars, emitsDone, inputsDone, lifeVars, isRunning, catMJVars>>

\* setRunning of the multi-jump engine, called when the game is started or
\* paused
SetRunningMJ ==
    /\ engine = "MJ"
    /\ inputsDone < MaxInputs
    /\ inputsDone' = inputsDone + 1
    /\ \E r \in {~isRunning} :
         /\ isRunning' = r
         /\ lastCall' = Call("setRunning", IF r THEN 1 ELSE 0)
    /\ UNCHANGED <<engine, viewVars, probe, gameVars, emitsDone, lifeVars, poolVars, catMJVars>>

\* spawnDust, called with 10 by the jump of updatePhysicsFixed (running
\* only) and with 1 by render
SpawnDust ==
    /\ engine = "Life"
    /\ emitsDone < MaxEmits
    /\ \E count \in DustCounts, vy \in DustVels :
         /\ count = 10 => running
         /\ SetParticleSystem(spawnDust(particleSystem, count, vy))
         /\ lastCall' = Call("spawnDust", count)
    /\ emitsDone' = emitsDone + 1
    /\ inputsDone' = inputsDone
    /\ UNCHANGED <<engine, viewVars, probe, gameVars, running, catVars, mjVars>>

\* updateParticles(dt), called by loop in every frame
UpdateParticlesLife ==
    /\ engine = "Life"
    /\ \E dt \in DustDts :
         /\ SetParticleSystem(updateParticlesLife(particleSystem, dt))
         /\ lastCall' = Call("updateParticles", dt)
    /\ UNCHANGED <<engine, viewVars, probe, gameVars, emitsDone, inputsDone, running, catVars, mjVars>>

\* what the host holds of the running flag and of its own state
host == [ui |-> gameState, run |-> running]

\* handleScoreUpdate of Game, the onScoreUpdate of a hosted engine
handleScoreUpdate(h, newScore, total) ==
    IF h.ui # NoHost /\ total > 0 /\ newScore >= total
      THEN [h EXCEPT !.ui = "won", !.run = FALSE]
      ELSE h

\* handleLivesUpdate of Game, the onLivesUpdate of a hosted engine
handleLivesUpdate(h, remainingLives) ==
    IF h.ui # NoHost /\ remainingLives <= 0
      THEN [h EXCEPT !.ui = "lost", !.run = FALSE]
      ELSE h

\* the observer calls of one fixed step: onLivesUpdate if a life was lost,
\* onScoreUpdate if a collectible was picked up
observers(h, lives0, p, score0, g) ==
    Const(IF p.lives # lives0 THEN handleLivesUpdate(h, p.lives) ELSE h,
          LAMBDA h1 : IF g.score # score0
                        THEN handleScoreUpdate(h1, g.score, Len(g.collectibles))
                        ELSE h1)

\* setRunning of the life-based engine; setRunning(true) calls reset, which
\* puts the player at (0, 10, 0), in the clearing around the origin
SetRunningLife ==
    /\ engine = "Life"
    /\ inputsDone < MaxInputs
    /\ inputsDone' = inputsDone + 1
    /\ \E r \in BOOLEAN :
         /\ running' = r
         /\ IF r THEN /\ SetPlayer(reset(player))
                      /\ SetGame(resetScore(game))
                      /\ column' = Street
                      /\ onTramLine' = TRUE
                      /\ inRange' = {}
                 ELSE UNCHANGED <<pPos, pVel, pOnGround, pJumpTimer, playerLives, column,
                                  pVelX, pVelZ, onTramLine, score, collectibles, inRange,
                                  scoreUpdate, livesUpdate, pickups, totals>>
         /\ lastCall' = Call("setRunning", IF r THEN 1 ELSE 0)
    /\ UNCHANGED <<engine, viewVars, probe, created, emitsDone, dustVars, keys, timeAcc, topHit,
                   lastSteps, frameLog, tramClock, mjVars>>

ParticlesNext ==
    \/ EmitParticleBurst
    \/ EmitSprintParticle
    \/ EmitWallSlideParticle
    \/ UpdateParticlesMJ
    \/ SetRunningMJ
    \/ SpawnDust
    \/ UpdateParticlesLife
    \/ SetRunningLife

SpecParticles == ParticlesInit /\ [][ParticlesNext]_vars

\* animate and loop re-register themselves with requestAnimationFrame in
\* every frame, so updateParticles keeps being called; the behaviours start
\* right after construction
ConstructedInit ==
    /\ CtlInit
    /\ running = FALSE
    /\ isRunning = FALSE
    /\ engine \in {"MJ", "Life"}
    /\ GameConstructed(engine)
    /\ CatMJConstructed
    /\ frameDt = MAX_DT_MJ
    /\ DustConstructed
    /\ CatConstructed
    /\ PoolConstructed

SpecParticlesFair ==
    /\ ConstructedInit
    /\ [][ParticlesNext]_vars
    /\ WF_vars(UpdateParticlesMJ)
    /\ WF_vars(UpdateParticlesLife)

\* ------------------------------------------------------------------------
\* Specification of the life-based engine: frames of loop, key events and
\* setRunning, for a capsule that stays in one column
\* ------------------------------------------------------------------------
\* updateEntities, for one collectible within range: c.active = false,
\* score++, onScoreUpdate(score, collectibles.length)
pickUp_KeepActive(g, i) ==
    [g EXCEPT !.score = @ + 1,
              !.scoreUpdate = <<g.score + 1, Len(g.collectibles)>>,
              !.pickups[i] = @ + 1,
              !.totals = @ \cup {Len(g.collectibles)}]

pickUp(g, i) ==
    [g EXCEPT !.collectibles[i] = FALSE,
              !.score = @ + 1,
              !.scoreUpdate = <<g.score + 1, Len(g.collectibles)>>,
              !.pickups[i] = @ + 1,
              !.totals = @ \cup {Len(g.collectibles)}]

\* updateEntities: collectibles.forEach from index i on; an inactive
\* collectible is skipped, an active one within 5 of pPos in the horizontal
\* plane is picked up
RECURSIVE updateEntities(_, _, _)
updateEntities(g, near, i) ==
    IF i > Len(g.collectibles) THEN g
    ELSE IF g.collectibles[i] /\ i \in near
         THEN updateEntities(pickUp(g, i), near, i + 1)
         ELSE updateEntities(g, near, i + 1)

\* the fixed steps of one frame: while (timeAcc >= step) { if (running)
\* { updatePhysicsFixed(step); updateEntities(step) } timeAcc -= step }.
\* st holds the player and the particle system; a jump calls spawnDust.
RECURSIVE fixedSteps_Late(_, _, _, _, _, _)
fixedSteps_Late(st, acc, run, k, col, in) ==
    IF acc <= FIXED_STEP THEN [st EXCEPT !.acc = acc]
    ELSE fixedSteps_Late([st EXCEPT !.trace = Append(@, "step")],
                         acc - FIXED_STEP, st.h.run, k, col, in)

RECURSIVE fixedSteps(_, _, _, _, _, _)
fixedSteps(st, acc, run, k, col, in) ==
    IF acc < FIXED_STEP THEN [st EXCEPT !.acc = acc]
    ELSE IF ~run THEN fixedSteps([st EXCEPT !.trace = Append(@, "step")],
                                 acc - FIXED_STEP, st.h.run, k, col, in)
    ELSE Const(updatePhysicsFixed([st.p EXCEPT !.jumped = FALSE], k, col, in.tram),
               LAMBDA p :
         Const(IF p.jumped THEN spawnDust(st.ps, 10, in.vy) ELSE st.ps,
               LAMBDA ps :
         Const(updateEntities([st.g EXCEPT !.livesUpdate =
                                  IF p.lives # st.p.lives THEN <<p.lives>> ELSE @],
                              in.near, 1),
               LAMBDA g :
         Const([p |-> p, ps |-> ps, acc |-> st.acc, trace |-> Append(st.trace, "step"),
                g |-> g, h |-> observers(st.h, st.p.lives, p, st.g.score, g),
                log |-> Append(st.log, [began |-> st.p.onGround, jump |-> k.jump,
                                        jumped |-> p.jumped, ended |-> p.onGround,
                                        keys |-> k, vx |-> st.p.vx, vz |-> st.p.vz,
                                        vx1 |-> p.vx, vz1 |-> p.vz,
                                        y |-> p.y, lives |-> p.lives])],
               LAMBDA st1 : fixedSteps(st1, acc - FIXED_STEP, st1.h.run, k, col, in)))))

\* whether the expanded tramBox contains pPos.x, pPos.z in this frame
tramOver ==
    IF ~onTramLine THEN {FALSE}
    ELSE IF tramClock < 0 THEN TramOver
    ELSE {tramClock < TRAM_STAY}

\* render: on the ground with a horizontal speed over 0.5 it calls
\* spawnDust(pPos, 1) if Math.random() > 0.9; a draw over 0.9 is explored
\* in the frame after the first key event, while no emission has been made
renderDust(p) ==
    {FALSE} \cup {d \in {TRUE} : /\ p.onGround
                                 /\ LengthSq(p.vx, p.vz) > DUST_SPEED * DUST_SPEED
                                 /\ lastCall.op = "updateControls"
                                 /\ inputsDone = 1
                                 /\ emitsDone = 0}

\* loop: the fixed steps, updateParticles(dt), render(dt)
\* loop, called once per animation frame; elapsed is clock.getDelta()
LoopAfter(times) ==
    /\ engine = "Life"
    /\ \E elapsed \in times, tram \in tramOver, vy \in DustVels :
         \E dt \in {Min(elapsed, MAX_DT_LIFE)} :
         \E st0 \in {[p |-> player, ps |-> particleSystem, acc |-> 0, log |-> <<>>,
                       trace |-> <<>>, g |-> game, h |-> host]} :
         \E st \in {fixedSteps(st0, timeAcc + dt, running, keys, column,
                               [tram |-> tram, vy |-> vy, near |-> inRange])} :
         \E ps \in {updateParticlesLife(st.ps, dt)} :
         \E dust \in renderDust(st.p) :
            /\ SetPlayer(st.p)
            /\ SetGame(st.g)
            /\ running' = st.h.run
            /\ gameState' = st.h.ui
            /\ syncPending' = (syncPending \/ st.h.ui # gameState)
            /\ topHit' = st.p.topHit
            /\ lastSteps' = st.log
            /\ frameLog' = st.trace \o <<"updateParticles", "render">>
            /\ timeAcc' = st.acc
            /\ SetParticleSystem(IF dust THEN spawnDust(ps, 1, vy) ELSE ps)
            /\ emitsDone' = emitsDone + (IF dust THEN 1 ELSE 0)
            /\ tramClock' = IF tramClock < 0 THEN tramClock
                            ELSE (tramClock + (timeAcc + dt) \div FIXED_STEP) % TramPeriod
            /\ lastCall' = Call("loop", elapsed)
    /\ UNCHANGED <<engine, camVars, gameStarted, probe, inRange, created, inputsDone, keys,
                   column, onTramLine, mjVars>>

Loop == LoopAfter(LoopDts)

\* the controls explored: a key event changes one key.  In a column at the
\* line of the tram it is the jump key (a horizontal move leaves the
\* column); on the open ground away from the line forward and sprint.
Controls ==
    {[keys EXCEPT ![n] = ~@] :
        n \in IF onTramLine THEN {"jump"} ELSE {"forward", "sprint"}}

\* updateControls of the life-based engine
UpdateControlsLife ==
    /\ engine = "Life"
    /\ inputsDone < MaxInputs
    /\ inputsDone' = inputsDone + 1
    /\ \E c \in Controls :
         /\ keys' = c
         /\ lastCall' = Call("updateControls", IF c.jump THEN 1 ELSE 0)
    /\ UNCHANGED <<engine, viewVars, probe, gameVars, emitsDone, dustVars, running, pPos, pVel, pOnGround,
                   pJumpTimer, playerLives, timeAcc, column, topHit, lastSteps,
                   frameLog, pVelX, pVelZ, onTramLine, tramClock, mjVars>>

\* the engine after construction, or running with the capsule at the apex of
\* a jump that carried it over a collider
LifeInit ==
    /\ engine = "Life"
    /\ CtlInit
    /\ isRunning = FALSE
    /\ CatMJConstructed
    /\ frameDt = MAX_DT_MJ
    /\ PoolConstructed
    /\ DustConstructed
    /\ \/ /\ running = FALSE
          /\ GameConstructed("Life")
          /\ CatConstructed
       \/ /\ running = TRUE
          /\ GameReset
          /\ \E col \in Columns \ {Street}, h \in ApexHeights :
               /\ column = col
               /\ pPos = col[Len(col)].max + h
          /\ pVel = 0
          /\ pOnGround = FALSE
          /\ pJumpTimer = 0
          /\ keys = NoKeys
          /\ playerLives = START_LIVES
          /\ timeAcc = 0
          /\ topHit = FALSE
          /\ lastSteps = <<>>
          /\ frameLog = <<>>
          /\ pVelX = 0
          /\ pVelZ = 0
          /\ onTramLine = TRUE
          /\ tramClock = -1

LifeNext ==
    \/ Loop
    \/ UpdateControlsLife
    \/ SetRunningLife

SpecLife == LifeInit /\ [][LifeNext]_vars

\* ------------------------------------------------------------------------
\* Specification of the frames of the life-based engine: loop is called
\* after any time, shorter or longer than the fixed step and longer than the
\* cap, running or not.
\* ------------------------------------------------------------------------
\* clock.getDelta() of a frame, in ticks of 1/120 s
FrameTimes == {1, 2, 3, 12, 40}

LoopFrame == LoopAfter(FrameTimes)

FrameNext ==
    \/ LoopFrame
    \/ SetRunningLife

SpecFrame == LifeInit /\ [][FrameNext]_vars

\* ------------------------------------------------------------------------
\* Specification of the camera angles: mouse movements reach both engines,
\* started or not.
\* ------------------------------------------------------------------------
\* movementX and movementY of a mouse event, in pixels
Pixels == {-400, -150, 150, 400}

\* onMouseMove of the life-based engine; locked: whether
\* document.pointerLockElement is the canvas
OnMouseMoveLife ==
    /\ engine = "Life"
    /\ inputsDone < MaxInputs
    /\ inputsDone' = inputsDone + 1
    /\ \E movementX \in Pixels, movementY \in Pixels, locked \in BOOLEAN :
         /\ IF running /\ locked
              THEN /\ camAngleY' = camAngleY - movementX * MOUSE_SENSITIVITY
                   /\ camAngleX' = camAngleX - movementY * MOUSE_SENSITIVITY
              ELSE UNCHANGED <<camAngleX, camAngleY>>
         /\ lastCall' = Call("onMouseMove", movementY)
    /\ UNCHANGED <<engine, probe, gameVars, emitsDone, lifeVars, mjVars, cameraPhi, cameraTheta,
                   uiVars>>

\* onMouseMove of the multi-jump engine
OnMouseMoveMJ ==
    /\ engine = "MJ"
    /\ inputsDone < MaxInputs
    /\ inputsDone' = inputsDone + 1
    /\ \E movementX \in Pixels, movementY \in Pixels :
         /\ IF ~isRunning
              THEN UNCHANGED <<cameraPhi, cameraTheta>>
              ELSE /\ cameraTheta' = cameraTheta - movementX * MOUSE_SENSITIVITY
                   /\ cameraPhi' = Max(CAMERA_MIN_PHI,
                                       Min(CAMERA_MAX_PHI,
                                           cameraPhi - movementY * MOUSE_SENSITIVITY))
         /\ lastCall' = Call("onMouseMove", movementY)
    /\ UNCHANGED <<engine, probe, gameVars, emitsDone, lifeVars, mjVars, camAngleX, camAngleY,
                   uiVars>>

CameraNext ==
    \/ OnMouseMoveLife
    \/ OnMouseMoveMJ
    \/ SetRunningLife
    \/ SetRunningMJ

SpecCamera == ConstructedInit /\ [][CameraNext]_vars

\* ------------------------------------------------------------------------
\* Specification of the hosted game: Game mounted in App around the
\* life-based engine, before Play Now or in the middle of a game, with the
\* capsule in the air over the roof of a building, within range of its simit.
\* ------------------------------------------------------------------------
\* the engine as its host sees it
world == [p |-> player, g |-> game, h |-> host]

\* reset, with its observer calls delivered to the host
engineReset(w) ==
    [p |-> reset(w.p),
     g |-> resetScore(w.g),
     h |-> handleLivesUpdate(handleScoreUpdate(w.h, 0, Len(w.g.collectibles)), START_LIVES)]

\* setRunning of the life-based engine
setRunningLife(w, r) ==
    IF r THEN engineReset([w EXCEPT !.h.run = TRUE])
         ELSE [w EXCEPT !.h.run = FALSE]

\* resetGame, which Game calls and the engine of src/ does not declare; the
\* specification names it with reset: it restores score, lives and the
\* active flags and puts the player at the spawn point
resetGame(w) == engineReset(w)

\* the Game State Sync effect
gameStateSync(w, started) ==
    IF started
      THEN setRunningLife(IF w.h.ui # "playing"
                            THEN [resetGame(w) EXCEPT !.h.ui = "playing"]
                            ELSE w,
                          TRUE)
      ELSE setRunningLife(w, FALSE)

\* handleRetry, the onClick of Try Again
handleRetry_KeepState(w) == setRunningLife(resetGame(w), TRUE)

handleRetry(w) == setRunningLife(resetGame([w EXCEPT !.h.ui = "playing"]), TRUE)

SetWorld(w, moved) ==
    /\ SetPlayer(w.p)
    /\ SetGame(w.g)
    /\ running' = w.h.run
    /\ gameState' = w.h.ui
    /\ IF moved THEN /\ column' = Street
                     /\ onTramLine' = TRUE
                     /\ inRange' = {}
               ELSE UNCHANGED <<column, onTramLine, inRange>>

GameInit ==
    /\ engine = "Life"
    /\ lastCall = Call("init", 0)
    /\ emitsDone = 0
    /\ inputsDone = 0
    /\ probe = NoProbe
    /\ CamConstructed
    /\ gameState = "playing"
    /\ isRunning = FALSE
    /\ CatMJConstructed
    /\ frameDt = MAX_DT_MJ
    /\ PoolConstructed
    /\ DustConstructed
    /\ created = NumCollectibles
    /\ \/ /\ gameStarted = FALSE
          /\ syncPending = TRUE
          /\ running = FALSE
          /\ score = 0
          /\ collectibles = [i \in 1..NumCollectibles |-> TRUE]
          /\ inRange = {}
          /\ scoreUpdate = <<>>
          /\ livesUpdate = <<>>
          /\ pickups = [i \in 1..NumCollectibles |-> 0]
          /\ totals = {}
          /\ CatConstructed
       \/ /\ gameStarted = TRUE
          /\ syncPending = FALSE
          /\ running = TRUE
          /\ inRange = {1}
          /\ \E picked \in {{}, 2..NumCollectibles} :
               /\ collectibles = [i \in 1..NumCollectibles |-> i \notin picked]
               /\ pickups = [i \in 1..NumCollectibles |-> IF i \in picked THEN 1 ELSE 0]
               /\ score = Cardinality(picked)
               /\ scoreUpdate = <<Cardinality(picked), NumCollectibles>>
          /\ livesUpdate = <<START_LIVES>>
          /\ totals = {NumCollectibles}
          /\ column = Roof
          /\ onTramLine = FALSE
          /\ tramClock = -1
          /\ pPos \in {ROOF_TOP + h : h \in ApexHeights}
          /\ pVel = 0
          /\ pVelX = 0
          /\ pVelZ = 0
          /\ pOnGround = FALSE
          /\ pJumpTimer = 0
          /\ keys = NoKeys
          /\ playerLives = START_LIVES
          /\ timeAcc = 0
          /\ topHit = FALSE
          /\ lastSteps = <<>>
          /\ frameLog = <<>>

\* handlePlayNow of App: setGameStarted(true)
HandlePlayNow ==
    /\ gameState # NoHost
    /\ ~gameStarted
    /\ gameStarted' = TRUE
    /\ syncPending' = TRUE
    /\ lastCall' = Call("handlePlayNow", 0)
    /\ UNCHANGED <<engine, camVars, gameState, probe, gameVars, emitsDone, inputsDone,
                   lifeVars, mjVars>>

\* the effect runs after a render in which isRunning or gameState changed
GameStateSync ==
    /\ gameState # NoHost
    /\ syncPending
    /\ \E w \in {gameStateSync(world, gameStarted)} :
         /\ SetWorld(w, gameStarted)
         /\ syncPending' = (w.h.ui # gameState)
    /\ lastCall' = Call("gameStateSync", IF gameStarted THEN 1 ELSE 0)
    /\ UNCHANGED <<engine, camVars, gameStarted, probe, created, emitsDone, inputsDone,
                   dustVars, keys, timeAcc, topHit, lastSteps, frameLog, tramClock, mjVars>>

\* Try Again is on the overlay, shown while gameState is not 'playing' and
\* isRunning holds
HandleRetry ==
    /\ gameState \in {"won", "lost"}
    /\ gameStarted
    /\ \E w \in {handleRetry(world)} :
         /\ SetWorld(w, TRUE)
         /\ syncPending' = (syncPending \/ w.h.ui # gameState)
    /\ lastCall' = Call("handleRetry", 0)
    /\ UNCHANGED <<engine, camVars, gameStarted, probe, created, emitsDone, inputsDone,
                   dustVars, keys, timeAcc, topHit, lastSteps, frameLog, tramClock, mjVars>>

GameNext ==
    \/ Loop
    \/ HandlePlayNow
    \/ GameStateSync
    \/ HandleRetry

SpecGame == GameInit /\ [][GameNext]_vars

\* ------------------------------------------------------------------------
\* Specification of the step handling: resolveCollisions meets one static
\* collider that stands on the ground beside the capsule.  The capsule
\* stands on the ground (pPos.y = 0) and walks towards the collider;
\* pVel.y is 0, or -GRAVITY * dt in the first substep of a fixed step.
\* ------------------------------------------------------------------------
\* tops of the collider, 0.1 to 1.2, and horizontal distances from the
\* center of the lower sphere to its side face, 0.1 to 1.0
ObstacleTops == {900 * i : i \in 1..12}
SideGaps == {900 * i : i \in 1..10}
\* the speed at which a walk on the ground settles
WalkVels == {280}

StepInit ==
    /\ engine = "Life"
    /\ GameReset
    /\ lastCall = Call("init", 0)
    /\ emitsDone = 0
    /\ inputsDone = 0
    /\ \E top \in ObstacleTops, d \in SideGaps, vy \in {0, -GRAVITY_DT}, vx \in WalkVels :
         probe = [in |-> [y |-> 0, vy |-> vy, box |-> [min |-> 0, max |-> top],
                          d |-> d, vx |-> vx],
                  out |-> <<>>]
    /\ ViewConstructed
    /\ isRunning = FALSE
    /\ CatMJConstructed
    /\ frameDt = MAX_DT_MJ
    /\ PoolConstructed
    /\ DustConstructed
    /\ running = TRUE
    /\ CatConstructed

\* the static loop of resolveCollisions for the collider of probe.in
ResolveAtSide ==
    /\ probe.out = <<>>
    /\ probe.in # <<>>
    /\ probe' = [probe EXCEPT !.out =
                    resolveBoxAtSide([y |-> probe.in.y, vy |-> probe.in.vy,
                                      groundHit |-> FALSE, topHit |-> FALSE],
                                     probe.in.y + PLAYER_RADIUS, probe.in.box,
                                     probe.in.d, probe.in.vx)]
    /\ lastCall' = Call("resolveCollisions", 0)
    /\ UNCHANGED <<engine, viewVars, gameVars, emitsDone, inputsDone, lifeVars, mjVars>>

StepNext == ResolveAtSide

SpecStep == StepInit /\ [][StepNext]_vars

\* ------------------------------------------------------------------------
\* Specification of the spring arm of the camera: render casts the ray from
\* the look target towards the desired place of the camera and meets the
\* colliders in the order of this.colliders.  Lengths in hundredths.
\* ------------------------------------------------------------------------
\* CONFIG.CAMERA
CAMERA_HEIGHT == 1800
CAMERA_DISTANCE == 3000
COLLISION_OFFSET == 100
\* the least distance of the camera, Math.max(..., 5)
CAMERA_NEAR == 500

\* offset.length()
maxDist == Length(CAMERA_HEIGHT, CAMERA_DISTANCE)

\* what ray.intersectBox gives for one collider: no intersection (or a box
\* that contains the target, which is skipped), or the distance of the point
\* of intersection from the target, 1 to 40
NoHit == -1
HitDistances == {NoHit} \cup {100 * i : i \in 1..40}
MaxBoxes == 2

\* for (const b of this.colliders) { ... if (d < finalDist) finalDist =
\* Math.max(d - COLLISION_OFFSET, 5) }
RECURSIVE springArm(_, _, _)
springArm(finalDist, hits, i) ==
    IF i > Len(hits) THEN finalDist
    ELSE springArm(IF hits[i] # NoHit /\ hits[i] < finalDist
                     THEN Max(hits[i] - COLLISION_OFFSET, CAMERA_NEAR)
                     ELSE finalDist,
                   hits, i + 1)

ArmInit ==
    /\ engine = "Life"
    /\ GameReset
    /\ lastCall = Call("init", 0)
    /\ emitsDone = 0
    /\ inputsDone = 0
    /\ \E n \in 1..MaxBoxes : \E hits \in [1..n -> HitDistances] :
         probe = [in |-> [hits |-> hits], out |-> <<>>]
    /\ ViewConstructed
    /\ isRunning = FALSE
    /\ CatMJConstructed
    /\ frameDt = MAX_DT_MJ
    /\ PoolConstructed
    /\ DustConstructed
    /\ running = TRUE
    /\ CatConstructed

\* the camera logic of render for the colliders of probe.in
RenderCamera ==
    /\ probe.out = <<>>
    /\ probe' = [probe EXCEPT !.out = [finalDist |-> springArm(maxDist, probe.in.hits, 1)]]
    /\ lastCall' = Call("render", 0)
    /\ UNCHANGED <<engine, viewVars, gameVars, emitsDone, inputsDone, lifeVars, mjVars>>

ArmNext == RenderCamera

SpecArm == ArmInit /\ [][ArmNext]_vars

\* ------------------------------------------------------------------------
\* Specification of the fall after reset: setRunning(true) has put the
\* capsule at (0, 10, 0), on the line of the tram, at any phase of the tram;
\* no key is pressed.  requestAnimationFrame keeps calling loop.
\* ------------------------------------------------------------------------
FallInit ==
    /\ engine = "Life"
    /\ CtlInit
    /\ GameReset
    /\ isRunning = FALSE
    /\ CatMJConstructed
    /\ frameDt = MAX_DT_MJ
    /\ PoolConstructed
    /\ DustConstructed
    /\ running = TRUE
    /\ column = Street
    /\ onTramLine = TRUE
    /\ tramClock \in 0..(TramPeriod - 1)
    /\ pPos = RESET_Y
    /\ pVel = 0
    /\ pVelX = 0
    /\ pVelZ = 0
    /\ pOnGround = FALSE
    /\ pJumpTimer = 0
    /\ keys = NoKeys
    /\ playerLives = START_LIVES
    /\ timeAcc = 0
    /\ topHit = FALSE
    /\ lastSteps = <<>>
    /\ frameLog = <<>>

FallNext == Loop

SpecFall == FallInit /\ [][FallNext]_vars /\ WF_vars(Loop)

\* ------------------------------------------------------------------------
\* Specification of the horizontal motion: the life-based engine running
\* on the open ground, away from the line of the tram and from every
\* collider but the ground plane.  The capsule is at rest on the ground, or
\* in the air at the end of a diagonal sprint whose keys have been released.
\* ------------------------------------------------------------------------
RunInit ==
    /\ engine = "Life"
    /\ CtlInit
    /\ GameReset
    /\ isRunning = FALSE
    /\ CatMJConstructed
    /\ frameDt = MAX_DT_MJ
    /\ PoolConstructed
    /\ DustConstructed
    /\ running = TRUE
    /\ column = Street
    /\ onTramLine = FALSE
    /\ tramClock = -1
    /\ \/ pPos = 0 /\ pOnGround = TRUE /\ pVelX = 0 /\ pVelZ = 0
       \/ /\ pPos \in ApexHeights
          /\ pOnGround = FALSE
          /\ pVelX \in GlideVels
          /\ pVelZ = pVelX
    /\ pVel = 0
    /\ pJumpTimer = 0
    /\ keys = NoKeys
    /\ playerLives = START_LIVES
    /\ timeAcc = 0
    /\ topHit = FALSE
    /\ lastSteps = <<>>
    /\ frameLog = <<>>


\* ------------------------------------------------------------------------
\* Specification of the multi-jump engine: frames of animate, key events
\* for jump and setRunning.  No direction key is pressed on the platform;
\* at the face of a building the key towards it is held.
\* ------------------------------------------------------------------------
\* animate: update(dt), dt = min(clock.getDelta(), 0.05).  skip: the draw
\* Math.random() > 0.5 of emitWallSlideParticle; leave: the horizontal move
\* of this frame carries a drifting player off the platform.  A wall-slide
\* particle is explored as the first emission only, and a frame whose
\* emissions exceed the emissions explored is not taken.
Update ==
    /\ engine = "MJ"
    /\ playerPosition >= -MaxDepth
    /\ \E skip \in {TRUE, emitsDone > 0}, leave \in BOOLEAN, l \in BurstLifetimes :
         \E s \in {update(mjPlayer, [run |-> isRunning,
                                     jump |-> playerControls.jump,
                                     prevJump |-> prevPlayerControls.jump,
                                     dt |-> frameDt, skip |-> skip,
                                     leave |-> leave, l |-> l, near |-> inRange])} :
            /\ emitsDone + s.emits <= MaxEmits
            /\ emitsDone' = emitsDone + s.emits
            /\ SetMJPlayer(s)
            /\ SetGame(s)
            /\ prevPlayerControls' = playerControls
            /\ sinceEdge' = IF s.edge THEN 0
                            ELSE IF sinceEdge < 0 THEN -1
                            ELSE Sat(sinceEdge + frameDt)
            /\ jumpsSinceEdge' = (IF s.edge THEN 0 ELSE jumpsSinceEdge)
                                 + (IF s.jumped = "none" THEN 0 ELSE 1)
            /\ lastUpdate' = [edge |-> s.edge, jumped |-> s.jumped,
                              wasOnGround |-> s.wasOnGround,
                              before |-> [onGround |-> onGround,
                                          touching |-> isTouchingWall,
                                          jumpCount |-> jumpCount,
                                          running |-> isRunning,
                                          steering |-> steering(mjPlayer),
                                          vx |-> playerVelocityX,
                                          vz |-> playerVelocityZ,
                                          y |-> playerPosition,
                                          contact |-> contact],
                              push |-> s.push]
            /\ lastCall' = Call("update", frameDt)
    /\ UNCHANGED <<engine, viewVars, probe, inRange, created, inputsDone, lifeVars, isRunning,
                   playerControls, frameDt>>

\* updateControls of the multi-jump engine, called when a key goes down or
\* up
UpdateControlsMJ ==
    /\ engine = "MJ"
    /\ inputsDone < MaxInputs
    /\ inputsDone' = inputsDone + 1
    /\ \E j \in {~playerControls.jump} :
         /\ playerControls' = [jump |-> j]
         /\ lastCall' = Call("updateControls", IF j THEN 1 ELSE 0)
    /\ UNCHANGED <<engine, viewVars, probe, gameVars, emitsDone, lifeVars, poolVars, isRunning,
                   prevPlayerControls, timeSinceGrounded, timeSinceJumpPressed,
                   playerPosition, playerVelocity, onGround, isTouchingWall,
                   jumpCount, contact, drifting, frameDt, sinceEdge,
                   jumpsSinceEdge, lastUpdate, playerVelocityX, playerVelocityZ,
                   animPhase, animTime>>

\* the engine after construction, or running with the player in the air at
\* the face of a building, at the apex of a jump made more than 0.1 s ago
MJInit ==
    /\ engine = "MJ"
    /\ CtlInit
    /\ GameConstructed("MJ")
    /\ running = FALSE
    /\ DustConstructed
    /\ CatConstructed
    /\ PoolConstructed
    /\ frameDt \in MJDts
    /\ \/ /\ isRunning = FALSE
          /\ CatMJConstructed
       \/ /\ isRunning = TRUE
          /\ contact \in {"slide", "grip"}
          /\ jumpCount \in AirJumps
          /\ playerControls = [jump |-> FALSE]
          /\ prevPlayerControls = [jump |-> FALSE]
          /\ timeSinceGrounded = TimerCap
          /\ timeSinceJumpPressed = JUMP_BUFFER_TIME
          /\ playerPosition = WallY
          /\ playerVelocity = 0
          /\ onGround = FALSE
          /\ isTouchingWall = TRUE
          /\ drifting = FALSE
          /\ playerVelocityX = 0
          /\ playerVelocityZ = 0
          /\ sinceEdge = TimerCap
          /\ jumpsSinceEdge = 1
          /\ lastUpdate = NoUpdate
          /\ animPhase = "falling"
          /\ animTime = TimerCap

MJNext ==
    \/ Update
    \/ UpdateControlsMJ
    \/ SetRunningMJ

SpecMJ == MJInit /\ [][MJNext]_vars

\* ------------------------------------------------------------------------
\* Specification of the horizontal motion of both engines.  Multi-jump
\* engine: the player in the air over the platform, at the apex of a jump
\* made more than 0.1 s ago, after a diagonal run through the air whose keys
\* have been released.
\* ------------------------------------------------------------------------
GlideInit ==
    /\ engine = "MJ"
    /\ CtlInit
    /\ GameConstructed("MJ")
    /\ running = FALSE
    /\ DustConstructed
    /\ CatConstructed
    /\ PoolConstructed
    /\ frameDt \in MJDts
    /\ isRunning = TRUE
    /\ contact = "platform"
    /\ jumpCount = 1
    /\ playerControls = [jump |-> FALSE]
    /\ prevPlayerControls = [jump |-> FALSE]
    /\ timeSinceGrounded = TimerCap
    /\ timeSinceJumpPressed = JUMP_BUFFER_TIME
    /\ playerPosition \in GlideHeights
    /\ playerVelocity = 0
    /\ onGround = FALSE
    /\ isTouchingWall = FALSE
    /\ drifting = FALSE
    /\ playerVelocityX \in GlideVelsMJ
    /\ playerVelocityZ = -playerVelocityX
    /\ sinceEdge = TimerCap
    /\ jumpsSinceEdge = 1
    /\ lastUpdate = NoUpdate
    /\ animPhase = "falling"
    /\ animTime = TimerCap

MotionInit == RunInit \/ GlideInit

MotionNext ==
    \/ Loop
    \/ UpdateControlsLife
    \/ Update
    \/ SetRunningMJ

SpecMotion == MotionInit /\ [][MotionNext]_vars

\* ------------------------------------------------------------------------
\* Specification of the score.  Life-based engine: running, the capsule in
\* the air over the roof of a building, within range of its simit; the
\* other simit has been picked up or not.  Multi-jump engine: the player at
\* the face of a building ("grip"), under a collectible near the edge of
\* its roof.
\* ------------------------------------------------------------------------
ScoreInit ==
    /\ CtlInit
    /\ frameDt \in MJDts
    /\ PoolConstructed
    /\ DustConstructed
    /\ created = NumCollectibles
    /\ inRange = {1}
    /\ \/ /\ engine = "Life"
          /\ isRunning = FALSE
          /\ CatMJConstructed
          /\ running = TRUE
          /\ \E picked \in {{}, {NumCollectibles}} :
               /\ collectibles = [i \in 1..NumCollectibles |-> i \notin picked]
               /\ pickups = [i \in 1..NumCollectibles |-> IF i \in picked THEN 1 ELSE 0]
               /\ score = Cardinality(picked)
               /\ scoreUpdate = <<Cardinality(picked), NumCollectibles>>
          /\ livesUpdate = <<START_LIVES>>
          /\ totals = {NumCollectibles}
          /\ column = Roof
          /\ onTramLine = FALSE
          /\ tramClock = -1
          /\ pPos \in {ROOF_TOP + h : h \in ApexHeights}
          /\ pVel = 0
          /\ pVelX = 0
          /\ pVelZ = 0
          /\ pOnGround = FALSE
          /\ pJumpTimer = 0
          /\ keys = NoKeys
          /\ playerLives = START_LIVES
          /\ timeAcc = 0
          /\ topHit = FALSE
          /\ lastSteps = <<>>
          /\ frameLog = <<>>
       \/ /\ engine = "MJ"
          /\ running = FALSE
          /\ CatConstructed
          /\ score = 0
          /\ collectibles = [i \in 1..NumCollectibles |-> i]
          /\ pickups = [i \in 1..NumCollectibles |-> 0]
          /\ scoreUpdate = <<0, TOTAL_COLLECTIBLES>>
          /\ livesUpdate = <<>>
          /\ totals = {TOTAL_COLLECTIBLES}
          /\ isRunning \in BOOLEAN
          /\ contact = "grip"
          /\ jumpCount \in AirJumps
          /\ playerControls = [jump |-> FALSE]
          /\ prevPlayerControls = [jump |-> FALSE]
          /\ timeSinceGrounded = TimerCap
          /\ timeSinceJumpPressed = JUMP_BUFFER_TIME
          /\ playerPosition = WallY
          /\ playerVelocity = 0
          /\ onGround = FALSE
          /\ isTouchingWall = TRUE
          /\ drifting = FALSE
          /\ playerVelocityX = 0
          /\ playerVelocityZ = 0
          /\ sinceEdge = TimerCap
          /\ jumpsSinceEdge = 1
          /\ lastUpdate = NoUpdate
          /\ animPhase = "falling"
          /\ animTime = TimerCap

ScoreNext ==
    \/ Loop
    \/ SetRunningLife
    \/ Update
    \/ SetRunningMJ

SpecScore == ScoreInit /\ [][ScoreNext]_vars

\* ------------------------------------------------------------------------
\* Properties of the particle subsystems
\* ------------------------------------------------------------------------

PoolMeshes == {particlePool[i] : i \in 1..Len(particlePool)}

ActiveMeshes == {activeParticles[i].mesh : i \in 1..Len(activeParticles)}

IdleSlots == {i \in 0..(DUST_SLOTS - 1) : lives[i] <= 0}

EmitOps == {"emitParticleBurst", "emitSprintParticle", "emitWallSlideParticle"}

\* C1: in the multi-jump engine the idle pool and the active list together
\* always hold exactly the 100 meshes of createParticlePool, and no mesh is in
\* both lists, whatever the order of emissions and updates.
C1_PoolConserved ==
    /\ Len(particlePool) + Len(activeParticles) = POOL_SIZE
    /\ PoolMeshes \cap ActiveMeshes = {}

\* particles were emitted, some came back out of order, others are in flight
C1_Witness ==
    /\ engine = "MJ"
    /\ emitsDone = 2
    /\ activeParticles # <<>>
    /\ particlePool # SubSeq(createParticlePool, 1, Len(particlePool))

\* C2: an emission request for count particles with f idle slots activates
\* exactly min(count, f) of them and creates no slot; with f = 0 it changes
\* nothing (emitParticleBurst, spawnDust).
C2_EmitActivatesMin ==
    [][/\ lastCall'.op = "emitParticleBurst" =>
           LET f == Len(particlePool)
               n == Min(lastCall'.arg, f)
           IN /\ Len(activeParticles') = Len(activeParticles) + n
              /\ Len(particlePool') = f - n
              /\ PoolMeshes' \cup ActiveMeshes' = PoolMeshes \cup ActiveMeshes
              /\ f = 0 => UNCHANGED poolVars
       /\ lastCall'.op = "spawnDust" =>
           LET f == Cardinality(IdleSlots)
               n == Min(lastCall'.arg, f)
           IN /\ Cardinality({i \in IdleSlots : lives'[i] > 0}) = n
              /\ DOMAIN lives' = DOMAIN lives
              /\ f = 0 => UNCHANGED dustVars
      ]_vars

\* a burst of 15 met 10 idle meshes and emptied the pool
C2_Witness ==
    /\ lastCall = Call("emitParticleBurst", 15)
    /\ emitsDone = 1
    /\ Len(particlePool) = 0
    /\ Len(activeParticles) = POOL_SIZE

\* spawnDust asked for 10 slots when 9 were idle
C2_WitnessDust ==
    /\ lastCall = Call("spawnDust", 10)
    /\ emitsDone = 2
    /\ IdleSlots = {}
    /\ lives[DUST_SLOTS - 1] = DUST_LIFE
    /\ lives[0] = DUST_LIFE

\* C3: no particle is activated while it is active: spawnDust leaves the
\* life and velocity of every slot with life > 0 alone, and an emission of
\* the multi-jump engine takes its meshes from particlePool and leaves the
\* entries of activeParticles as they are.
C3_NoDoubleActivation ==
    [][/\ lastCall'.op = "spawnDust" =>
           \A i \in 0..(DUST_SLOTS - 1) :
               lives[i] > 0 => lives'[i] = lives[i] /\ vels'[i] = vels[i]
       /\ lastCall'.op \in EmitOps =>
           /\ Len(activeParticles') >= Len(activeParticles)
           /\ SubSeq(activeParticles', 1, Len(activeParticles)) = activeParticles
           /\ \A i \in (Len(activeParticles) + 1)..Len(activeParticles') :
                 /\ activeParticles'[i].mesh \in PoolMeshes
                 /\ activeParticles'[i].mesh \notin ActiveMeshes
                 /\ \A j \in (Len(activeParticles) + 1)..Len(activeParticles') :
                       activeParticles'[i].mesh = activeParticles'[j].mesh => i = j
      ]_vars

\* spawnDust filled slot 0 while part-aged slots above it stayed alive
C3_Witness ==
    /\ lastCall.op = "spawnDust"
    /\ lives[0] = DUST_LIFE
    /\ \E i \in 1..(DUST_SLOTS - 1) : lives[i] > 0 /\ lives[i] < DUST_LIFE /\ vels[i] # vels[0]

\* C4: a particle becomes idle in exactly the first updateParticles call
\* after which its lifetime is <= 0 (until then it stays active and each
\* update takes dt, resp. 2 dt, off its lifetime), and with frames that keep
\* occurring every activated particle is eventually idle again.
C4_Exact ==
    [][/\ \A i \in 1..Len(activeParticles) :
             LET p == activeParticles[i]
                 dt == IF lastCall'.op = "updateParticles" THEN lastCall'.arg ELSE 0
             IN IF lastCall'.op = "updateParticles" /\ p.lifetime - dt <= 0
                THEN p.mesh \in PoolMeshes' /\ p.mesh \notin ActiveMeshes'
                ELSE \E j \in 1..Len(activeParticles') :
                        activeParticles'[j] = [mesh |-> p.mesh, lifetime |-> p.lifetime - dt]
       /\ \A i \in 0..(DUST_SLOTS - 1) :
             lives[i] > 0 =>
                 LET dt == IF lastCall'.op = "updateParticles" THEN lastCall'.arg ELSE 0
                 IN lives'[i] = lives[i] - dt
      ]_vars

\* every particle that is active at some time is idle at a later time: over
\* and over again all of them are idle at once
AllIdle == ActiveMeshes = {} /\ IdleSlots = 0..(DUST_SLOTS - 1)

C4_Returns == []<>AllIdle

C4_ReturnedWhenExpired == C4_Exact /\ C4_Returns

\* an update returned the short-lived half of a burst and kept the other half
C4_Witness ==
    /\ lastCall.op = "updateParticles"
    /\ activeParticles # <<>>
    /\ \A i \in 1..Len(activeParticles) : activeParticles[i].lifetime = 2
    /\ particlePool[Len(particlePool)] # Len(particlePool)

\* ------------------------------------------------------------------------
\* Properties of the life-based engine
\* ------------------------------------------------------------------------
\* C5: when the last resolveCollisions of a frame resolved a penetration of
\* the top face of a static collider (contact normal (0, 1, 0), y > 0.7)
\* while the player moved downward, the frame ends with pOnGround = true and
\* pVel.y = 0.
C5_GroundContactZeroesVelocity ==
    (lastCall.op = "loop" /\ topHit) => (pOnGround /\ pVel = 0)

\* C11: a fixed step applies the jump impulse only if it began with
\* pOnGround = true and jump held, and it ends off the ground; so no impulse
\* is applied in a step that begins in the air.
C11_ImpulseOnlyFromGround ==
    \A i \in 1..Len(lastSteps) :
        lastSteps[i].jumped =>
            (lastSteps[i].began /\ lastSteps[i].jump /\ ~lastSteps[i].ended)

\* the last call of loop ran a fixed step that applied the jump impulse
C11_Witness ==
    /\ lastCall.op = "loop"
    /\ \E i \in 1..Len(lastSteps) : lastSteps[i].jumped /\ lastSteps[i].began

\* the fixed steps of the last call of loop in which forward was the only
\* direction key held and which left the horizontal velocity as it was: the
\* speed has settled
SettledSteps ==
    {i \in 1..Len(lastSteps) :
        /\ lastSteps[i].keys.forward
        /\ ~lastSteps[i].keys.backward /\ ~lastSteps[i].keys.left /\ ~lastSteps[i].keys.right
        /\ lastSteps[i].vx1 = lastSteps[i].vx
        /\ lastSteps[i].vz1 = lastSteps[i].vz}

maxSpeed(k) == IF k.sprint THEN SPRINT_SPEED ELSE MOVE_SPEED

\* C12: with forward held and no obstacle the horizontal speed converges to
\* MOVE_SPEED, or to SPRINT_SPEED with sprint held: the speed at which it
\* settles lies within one step's acceleration of that maximum.
C12_SpeedSettlesAtMax ==
    \A i \in SettledSteps :
        /\ LengthSq(lastSteps[i].vx1, lastSteps[i].vz1) <= maxSpeed(lastSteps[i].keys) ^ 2
        /\ Length(lastSteps[i].vx1, lastSteps[i].vz1) >= maxSpeed(lastSteps[i].keys) - ACCEL_DT

\* the fixed steps of the last call of loop that ran with no direction key
\* held
IdleSteps ==
    {i \in 1..Len(lastSteps) :
        /\ ~lastSteps[i].keys.forward /\ ~lastSteps[i].keys.backward
        /\ ~lastSteps[i].keys.left /\ ~lastSteps[i].keys.right}

\* the last update of the multi-jump engine ran with no direction key held
\* and met no collider in the horizontal plane
IdleUpdate ==
    /\ engine = "MJ"
    /\ lastCall.op = "update"
    /\ ~lastUpdate.before.steering
    /\ ~isTouchingWall

\* C13: with no direction key held and no collider contact a step leaves the
\* horizontal speed at most what it was, and neither component of the
\* horizontal velocity changes its sign, in both engines.
C13_SpeedDecays ==
    /\ \A i \in IdleSteps :
          /\ LengthSq(lastSteps[i].vx1, lastSteps[i].vz1)
                <= LengthSq(lastSteps[i].vx, lastSteps[i].vz)
          /\ lastSteps[i].vx1 * lastSteps[i].vx >= 0
          /\ lastSteps[i].vz1 * lastSteps[i].vz >= 0
          /\ lastSteps[i].vx = 0 => lastSteps[i].vx1 = 0
          /\ lastSteps[i].vz = 0 => lastSteps[i].vz1 = 0
    /\ IdleUpdate =>
          /\ LengthSq(playerVelocityX, playerVelocityZ)
                <= LengthSq(lastUpdate.before.vx, lastUpdate.before.vz)
          /\ playerVelocityX * lastUpdate.before.vx >= 0
          /\ playerVelocityZ * lastUpdate.before.vz >= 0
          /\ lastUpdate.before.vx = 0 => playerVelocityX = 0
          /\ lastUpdate.before.vz = 0 => playerVelocityZ = 0

\* a step of the life-based engine has slowed the capsule down on the
\* ground with no key held
C13_Witness ==
    /\ engine = "Life"
    /\ lastCall.op = "loop"
    /\ \E i \in IdleSteps :
          /\ lastSteps[i].began
          /\ pVelZ # 0
          /\ LengthSq(pVelX, pVelZ) < LengthSq(lastSteps[i].vx, lastSteps[i].vz)

\* an update of the multi-jump engine has slowed the player down in the air
C13_WitnessMJ ==
    /\ IdleUpdate
    /\ playerVelocityX # 0
    /\ playerVelocityZ # 0
    /\ LengthSq(playerVelocityX, playerVelocityZ)
          < LengthSq(lastUpdate.before.vx, lastUpdate.before.vz)

\* C14: from the reset spawn with no input the capsule comes to rest on the
\* ground plane after finitely many fixed steps (pPos.y = 0, pVel.y = 0,
\* pOnGround) and every later step ends in that state.
C14_ComesToRest == <>[](pPos = 0 /\ pVel = 0 /\ pOnGround)

\* a fixed step that began at rest on the ground has ended there, while the
\* tram passes over the capsule
C14_Witness ==
    /\ lastCall.op = "loop"
    /\ Len(lastSteps) > 0
    /\ lastSteps[1].began
    /\ pPos = 0 /\ pVel = 0 /\ pOnGround
    /\ tramClock \in 1..TRAM_STAY

\* the capsule has come down on the roof of the tram on its way
C14_WitnessRoof ==
    /\ lastCall.op = "loop"
    /\ pPos = TRAM_TOP
    /\ pOnGround

\* C15: a capsule that does not rise and walks into the side of a static
\* collider whose top is at most STEP_HEIGHT over pPos.y is put on the top
\* of the collider, with pVel.y = 0 and the ground flag, whatever the height
\* of the collider.
C15_StepsUp ==
    (/\ lastCall.op = "resolveCollisions"
     /\ probe.in.box.max > probe.in.y
     /\ probe.in.box.max - probe.in.y <= STEP_HEIGHT
     /\ probe.in.vy <= 0)
    => (/\ probe.out.y = probe.in.box.max
        /\ probe.out.vy = 0
        /\ probe.out.groundHit)

\* the step handling has put a capsule on top of a collider
C15_Stepped ==
    /\ lastCall.op = "resolveCollisions"
    /\ probe.out.y = probe.in.box.max
    /\ probe.out.groundHit

RECURSIVE Sum(_, _)
Sum(f, n) == IF n = 0 THEN 0 ELSE f[n] + Sum(f, n - 1)

\* C17: between two resets a collectible raises the score and fires
\* onScoreUpdate at most once, however long the player stays within range;
\* the score is the number of collectibles picked up since the last reset
\* and never exceeds the total.
C17_PickedUpOnce ==
    /\ \A i \in DOMAIN pickups : pickups[i] <= 1
    /\ score = Sum(pickups, created)
    /\ score <= created

\* a frame has run with a collectible in range that had been picked up
\* before
C17_Witness ==
    /\ lastCall.op \in {"loop", "update"}
    /\ \E i \in inRange : pickups[i] = 1
    /\ score >= 1
    /\ scoreUpdate[1] = score

\* C18 as stated: the engine always holds as many collectible entities as
\* were created (a pickup never removes one), and every total passed to
\* onScoreUpdate is that number.
C18_NeverRemoved ==
    /\ Len(collectibles) = created
    /\ totals \subseteq {created}

\* C18 as amended: every total passed to onScoreUpdate is the number of
\* collectibles created; the life-based engine keeps every entity and only
\* clears its flag, the multi-jump engine removes a picked entity from its
\* list, which holds the created ones less the picked ones.
C18_TotalIsStable ==
    /\ totals \subseteq {created}
    /\ engine = "Life" =>
         /\ Len(collectibles) = created
         /\ \A i \in 1..created : collectibles[i] = (pickups[i] = 0)
    /\ engine = "MJ" =>
         /\ Len(collectibles) = created - score
         /\ \A i \in 1..Len(collectibles) : pickups[collectibles[i]] = 0

\* the multi-jump engine has collected a fish and reported the total
C18_Witness ==
    /\ engine = "MJ"
    /\ lastCall.op = "update"
    /\ score = 1
    /\ Len(collectibles) = created - 1
    /\ scoreUpdate = <<1, created>>

\* C19: in the life-based engine, when reset has returned (setRunning(true)
\* calls it), the score is 0, the lives are 9, every collectible is active,
\* the player is at the spawn point 10 above the street with zero velocity
\* and pOnGround false, and the observers have last been called with
\* (0, total) and 9.
C19_ResetRestores ==
    (engine = "Life" /\ lastCall = Call("setRunning", 1)) =>
        /\ score = 0
        /\ playerLives = START_LIVES
        /\ \A i \in 1..created : collectibles[i]
        /\ pPos = RESET_Y
        /\ column = Street
        /\ pVel = 0
        /\ pVelX = 0
        /\ pVelZ = 0
        /\ ~pOnGround
        /\ scoreUpdate = <<0, created>>
        /\ livesUpdate = <<START_LIVES>>

\* reset has returned after frames of the running game
C19_Witness ==
    /\ engine = "Life"
    /\ lastCall = Call("setRunning", 1)
    /\ lastSteps # <<>>
    /\ score = 0
    /\ pPos = RESET_Y
    /\ scoreUpdate = <<0, created>>

\* C20: the frame that follows setRunning(false) changes neither the
\* player's position, velocity or ground flag, nor the score, nor any
\* collectible, in either engine.
C20_PausedFrameChangesNothing ==
    [][(lastCall = Call("setRunning", 0) /\ lastCall'.op \in {"loop", "update"}) =>
          /\ pPos' = pPos
          /\ pVel' = pVel
          /\ pVelX' = pVelX
          /\ pVelZ' = pVelZ
          /\ pOnGround' = pOnGround
          /\ playerPosition' = playerPosition
          /\ playerVelocity' = playerVelocity
          /\ playerVelocityX' = playerVelocityX
          /\ playerVelocityZ' = playerVelocityZ
          /\ onGround' = onGround
          /\ score' = score
          /\ collectibles' = collectibles]_vars

\* C21: every call of loop adds min(elapsed, 0.1) to timeAcc and runs one
\* step per FIXED_STEP of it, each taking FIXED_STEP off, running or not: at
\* most 6 steps per frame, 0 <= timeAcc < FIXED_STEP after the frame, and
\* all the steps come before the one updateParticles and the one render.
C21_FixedSteps ==
    [][lastCall'.op = "loop" =>
          LET n == Len(frameLog') - 2
          IN /\ n >= 0
             /\ n <= MAX_DT_LIFE \div FIXED_STEP
             /\ \A i \in 1..n : frameLog'[i] = "step"
             /\ frameLog'[n + 1] = "updateParticles"
             /\ frameLog'[n + 2] = "render"
             /\ timeAcc' + n * FIXED_STEP = timeAcc + Min(lastCall'.arg, MAX_DT_LIFE)
             /\ 0 <= timeAcc'
             /\ timeAcc' < FIXED_STEP
             /\ running => Len(lastSteps') = n]_vars

\* a frame after more than the cap, entered with time left over, has run
\* six physics steps
C21_Witness ==
    /\ lastCall = Call("loop", 40)
    /\ running
    /\ Len(lastSteps) = 6
    /\ frameLog = <<"step", "step", "step", "step", "step", "step", "updateParticles", "render">>
    /\ timeAcc = 1

\* C22: after any mouse movements the pitch of the camera is inside a
\* fixed range short of the vertical in both engines: cameraSpherical.phi
\* within [CAMERA_MIN_PHI, CAMERA_MAX_PHI], camAngle.x within (-pi/2, pi/2).
C22_PitchClamped ==
    /\ CAMERA_MIN_PHI <= cameraPhi
    /\ cameraPhi <= CAMERA_MAX_PHI
    /\ -HALF_PI < camAngleX
    /\ camAngleX < HALF_PI

\* C23: whenever the ray of the camera hits a collider at a distance d
\* below the full follow distance, the distance finally used is at most
\* d - COLLISION_OFFSET, and it never exceeds the full follow distance.
C23_CameraBeforeHit ==
    lastCall.op = "render" =>
        /\ probe.out.finalDist <= maxDist
        /\ \A i \in 1..Len(probe.in.hits) :
              (probe.in.hits[i] # NoHit /\ probe.in.hits[i] < maxDist) =>
                  probe.out.finalDist <= probe.in.hits[i] - COLLISION_OFFSET

C25_StaysOver ==
    [][/\ gameState' \in {"won", "lost"} => ~running'
       /\ (gameState \in {"won", "lost"} /\ lastCall'.op # "handleRetry") =>
             /\ gameState' = gameState
             /\ ~running'
             /\ score' = score
             /\ collectibles' = collectibles
             /\ pPos' = pPos
             /\ pVel' = pVel]_vars

\* C26: in the life-based engine pPos.y >= 0 at the end of every fixed
\* step, whatever the keys and the colliders, and the lives stay what reset
\* made them.
C26_NeverBelowGround ==
    /\ pPos >= 0
    /\ playerLives = START_LIVES
    /\ \A i \in 1..Len(lastSteps) :
          /\ lastSteps[i].y >= 0
          /\ lastSteps[i].lives = START_LIVES

\* a fixed step has ended a fall on the ground plane
C26_Witness ==
    /\ lastCall.op = "loop"
    /\ pPos = 0
    /\ pOnGround
    /\ \E i \in 1..Len(lastSteps) :
          /\ ~lastSteps[i].began
          /\ lastSteps[i].ended
          /\ lastSteps[i].y = 0

\* ------------------------------------------------------------------------
\* Properties of the multi-jump engine
\* ------------------------------------------------------------------------
Updated == lastCall.op = "update"

\* C6: while the game runs and the player is in the air, away from any wall,
\* with jumpCount < MAX_JUMPS, an update that sees a fresh press of jump
\* executes performJump.
C6_FreshPressJumps ==
    (/\ Updated
     /\ lastUpdate.edge
     /\ lastUpdate.before.running
     /\ ~lastUpdate.before.onGround
     /\ ~lastUpdate.before.touching
     /\ lastUpdate.before.jumpCount < MAX_JUMPS)
    => lastUpdate.jumped = "jump"

\* C7: an update executes performJump or performWallJump only if
\* updateTimers saw a rising edge of jump less than JUMP_BUFFER_TIME before.
C7_JumpOnlyAfterPress ==
    (Updated /\ lastUpdate.jumped # "none")
    => (sinceEdge >= 0 /\ sinceEdge < JUMP_BUFFER_TIME)

\* C8: after a rising edge of jump, and until the next one, at most one call
\* of performJump or performWallJump is executed.
C8_OneJumpPerPress == jumpsSinceEdge <= 1

\* a press has been answered by a jump, and the key is still down in a later
\* update inside the buffer window
C8_Witness ==
    /\ Updated
    /\ isRunning
    /\ playerControls.jump
    /\ ~lastUpdate.edge
    /\ lastUpdate.jumped = "none"
    /\ jumpsSinceEdge = 1
    /\ sinceEdge > 0
    /\ sinceEdge < JUMP_BUFFER_TIME

\* C9: a step takes jumpCount from a non-zero value to 0 only if it is an
\* update whose physics stage began with the player off the ground and that
\* ends with the player on the ground, its vertical velocity not positive.
C9_ResetOnlyOnLanding ==
    [][(jumpCount # 0 /\ jumpCount' = 0)
       => (/\ lastCall'.op = "update"
           /\ ~lastUpdate'.wasOnGround
           /\ onGround'
           /\ playerVelocity' <= 0)]_vars

\* a landing on the platform after a jump
C9_Witness ==
    /\ Updated
    /\ contact = "platform"
    /\ lastUpdate.before.jumpCount # 0
    /\ jumpCount = 0

\* C10: at the end of an update, onGround implies playerVelocity.y = 0,
\* jumpCount = 0 and timeSinceGrounded = 0.
C10_GroundedState ==
    (Updated /\ onGround)
    => (playerVelocity = 0 /\ jumpCount = 0 /\ timeSinceGrounded = 0)

\* an update that began on the ground and ends on the ground
C10_Witness ==
    /\ Updated
    /\ onGround
    /\ lastUpdate.wasOnGround
    /\ lastUpdate.before.onGround

\* C27: an update that begins with the player resting on top of a collider
\* (the bottom of the bounding box at the collider's top) with no horizontal
\* velocity and no steering leaves isTouchingWall false and moves the player
\* along neither horizontal axis in checkCollisions('x') and ('z').
C27_FloorIsNoWall ==
    (/\ Updated
     /\ lastUpdate.before.running
     /\ lastUpdate.before.onGround
     /\ lastUpdate.before.contact = "platform"
     /\ lastUpdate.before.y = PLATFORM_TOP
     /\ lastUpdate.before.vx = 0
     /\ lastUpdate.before.vz = 0
     /\ ~lastUpdate.before.steering)
    => (~isTouchingWall /\ lastUpdate.push = 0)

\* C28: in the multi-jump engine the height of the player is never below
\* the ground (y = 0): some collider stops every fall.
C28_NeverBelowGroundMJ == playerPosition >= 0

\* ------------------------------------------------------------------------
\* Specification of the broadphase of resolveCollisions (life-based engine),
\* for one collider of buildWorld and one place of the capsule.  Along x the
\* collider spans [box.min.x, box.min.x + width]; x is pPos.x - box.min.x;
\* dy is the distance of the centre of the lower sphere from the collider
\* along y and z together (0 when the centre is level with the collider).
\* ------------------------------------------------------------------------
\* CONFIG.MAP.BLOCK_SIZE, the width of a sidewalk; BLOCK_SIZE - 4, the width
\* of a building; fullSize + 400 = 24 * 48 + 400, the width of the ground
BLOCK_SIZE == 270000
BUILDING_WIDTH == 234000
GROUND_WIDTH == 13968000
ColliderWidths == {GROUND_WIDTH, BLOCK_SIZE, BUILDING_WIDTH}
\* the 30 of the broadphase test
BROAD_RANGE == 270000
\* places of the capsule: within 1.5 of either face of the collider, in
\* steps of 0.1, and over its middle
BroadOffsets(w) ==
    {(UNIT_LEN \div 10) * i : i \in -15..15}
    \cup {w + (UNIT_LEN \div 10) * i : i \in -15..15}
    \cup {w \div 2}
BroadGaps == {0, 4500, 9000, 10800}

\* if (Math.abs(box.min.x - this.pPos.x) > 30) continue
broadphaseSkips(x) == (IF x < 0 THEN -x ELSE x) > BROAD_RANGE

\* closest = center.clamp(box.min, box.max); distSq = |center - closest|^2;
\* distSq < r * r
sphereOverlaps(w, x, dy) ==
    LET dx == IF x < 0 THEN -x ELSE IF x > w THEN x - w ELSE 0
    IN dx * dx + dy * dy < PLAYER_RADIUS * PLAYER_RADIUS

BroadInit ==
    /\ engine = "Life"
    /\ GameReset
    /\ lastCall = Call("init", 0)
    /\ emitsDone = 0
    /\ inputsDone = 0
    /\ \E w \in ColliderWidths : \E x \in BroadOffsets(w) : \E dy \in BroadGaps :
         probe = [in |-> [width |-> w, x |-> x, dy |-> dy], out |-> <<>>]
    /\ ViewConstructed
    /\ isRunning = FALSE
    /\ CatMJConstructed
    /\ frameDt = MAX_DT_MJ
    /\ PoolConstructed
    /\ DustConstructed
    /\ running = TRUE
    /\ CatConstructed

\* one turn of the loop over this.colliders, for the collider of probe.in
BroadphaseTest ==
    /\ probe.out = <<>>
    /\ probe' = [probe EXCEPT !.out =
                   [skipped |-> broadphaseSkips(probe.in.x),
                    overlaps |-> sphereOverlaps(probe.in.width, probe.in.x,
                                                probe.in.dy)]]
    /\ lastCall' = Call("resolveCollisions", 0)
    /\ UNCHANGED <<engine, viewVars, gameVars, emitsDone, inputsDone, lifeVars, mjVars>>

BroadNext == BroadphaseTest

SpecBroad == BroadInit /\ [][BroadNext]_vars

\* C29: the broadphase test of resolveCollisions skips no collider that the
\* lower sphere of the capsule overlaps, whatever the width of the collider
\* (ground, sidewalk, building).
C29_BroadphaseKeepsOverlaps ==
    (probe.out # <<>> /\ probe.out.overlaps) => ~probe.out.skipped

\* C30: at the end of every update of the multi-jump engine the animation
\* phase agrees with onGround (off the ground: jumping, falling or
\* wall_sliding; on the ground: idle, running or landing), and a phase still
\* 'landing' has accumulated no more than 0.2 s of animation time, so the
\* frame that takes the time over 0.2 s ends it.
C30_PhaseAgrees ==
    Updated =>
        /\ ~onGround => animPhase \in AirPhases
        /\ onGround => animPhase \in GroundPhases
        /\ animPhase = "landing" => animTime <= LANDING_TIME

\* a landing that has lasted its 0.2 s and has just become idle
C30_Witness ==
    /\ Updated
    /\ isRunning
    /\ onGround
    /\ animPhase = "idle"
    /\ animTime > LANDING_TIME
    /\ animTime <= LANDING_TIME + MAX_DT_MJ
====
